---- MODULE Spec2Model ----
(***************************************************************************)
(* Device connection / reconnection lifecycle of robothub_oak:             *)
(* Device (command log, deferred construction), HubCamera (one capability  *)
(* object), DeviceManager (connection and polling threads).                *)
(***************************************************************************)
EXTENDS Integers, Sequences, FiniteSets, TLC

\* Python's None, for every optional string-valued field.
None == "None"

---------------------------------------------------------------------------
\* Bounds of the model.

\* Commands one Device records in its CommandHistory.
MaxCommands == 2
\* Connection attempts for the one device of Spec and for the passes of
\* SpecStop and SpecShutdown; HubCamera objects of SpecCam.
MaxAttempts == 2
\* HubCamera objects (connection attempts) created by the threads of SpecMgr.
MaxCameras == 3
\* StreamHandle objects created by the create_stream calls of SpecCam.
MaxHandles == 2
\* Commands in the history of the builder-level specification.
MaxBuilt == 3
\* Frames the application adds to the FrameBuffer.
MaxFrames == 3
\* _save_video calls on the FrameBuffer.
MaxSaves == 2

\* HubCamera.start: seconds after which a failure ends the retries, and the
\* wait between two tries.
StartWindow == 10
StartWait == 1
\* HubCamera.init_oak_camera: the same two.
InitWindow == 10
InitWait == 1
\* BaseApplication._connect: seconds after which no further acquisition is
\* attempted, and the wait after a failed one.
GiveUpWindow == 30
ConnectWait == 5
\* FrameBuffer._save_video: turns without a frame after which it gives up.
RetryLimit == 10

---------------------------------------------------------------------------
\* Values the application and the environment choose from.

CameraNames == {"color", "left"}
NNNames == {"nn"}
\* The names the builder-level specification requests networks by.
BuilderNNNames == NNNames \cup {"nn2"}
\* (resolution, fps) arguments of Device.get_camera; both default to None.
CameraArgs == {<<None, None>>, <<"720p", "30">>}
\* Product names info_report() reads from the unit's EEPROM ("" when it holds none).
ProductNames == {"", "OAK-D-LR"}
\* How a registered Device is addressed: by mxid, by IP address or by id only.
DeviceKinds == {"mxid", "ip", "id"}

VARIABLES
    devices,      \* DeviceManager._devices: sequence of Device objects
    components,   \* heap of component descriptors (Camera / NeuralNetwork / Stereo)
    hub_cameras,  \* heap of HubCamera objects, one per connection attempt
    live,         \* DeviceManager._hub_cameras: sequence of HubCamera ids
    STREAMS,      \* robothub.STREAMS.streams: registered unique keys
    last,         \* outcome of the latest Device._start: result, execute() and capability calls
    returned,     \* what Device.get_camera returned so far, per device and name
    connPc,       \* connection thread: "idle", "top", "iter", "exit", "dead"
    connIdx,      \* connection thread: position in `for device in self._devices`
    mxids,        \* connection thread: the snapshot taken before the for loop
    pollPc,       \* polling thread: "idle", "top", "iter", "exit", "dead"
    pollIdx,      \* polling thread: position in `for camera in self._hub_cameras`
    stop_event,   \* DeviceManager.stop_event
    mainPc,       \* main thread: "idle", "running", then the positions of stop()
    reporting,    \* reporting thread: position and what the current pass published
    stopping,     \* DeviceManager.stop: position in its joins and in its camera loop
    call,         \* the HubCamera method a caller is executing, and its outcome
    handles,      \* the StreamHandle objects created so far
    app,          \* BaseApplication: the device thread, the device state, STOP_EVENT
    watch_dog,    \* one WatchDog: its stop event, its threads, what the Agent was sent
    frame_buffer  \* one FrameBuffer: its frames, temporary queues and save calls

vars == <<devices, components, hub_cameras, live, STREAMS, last, returned,
          connPc, connIdx, mxids, pollPc, pollIdx, stop_event, mainPc,
          reporting, stopping, call, handles, app, watch_dog, frame_buffer>>

\* The objects outside robothub_oak's DeviceManager.
appVars == <<app, watch_dog, frame_buffer>>

\* The objects of robothub_oak.
oakVars == <<devices, components, hub_cameras, live, STREAMS, last, returned,
             connPc, connIdx, mxids, pollPc, pollIdx, stop_event, mainPc,
             reporting, stopping, call, handles>>

extVars == <<reporting, stopping, call, handles, appVars>>

mgrVars == <<hub_cameras, live, STREAMS, connPc, connIdx, mxids, pollPc, pollIdx,
             stop_event, mainPc, extVars>>

---------------------------------------------------------------------------
\* Device.__init__

NoCameras == [n \in CameraNames |-> 0]
NoNetworks == [n \in BuilderNNNames |-> 0]

\* Identities of the physical units the registered devices address.
Ids == <<"id1", "id2">>
MxIds == <<"mxid1", "mxid2">>
IpAddresses == <<"ip1", "ip2">>

Device(kind, i) ==
    [id |-> IF kind = "id" THEN Ids[i] ELSE None,
     name |-> None,
     mxid |-> IF kind = "mxid" THEN MxIds[i] ELSE None,
     ip_address |-> IF kind = "ip" THEN IpAddresses[i] ELSE None,
     cameras |-> NoCameras,
     stereo |-> 0,
     neural_networks |-> NoNetworks,
     hub_camera |-> 0,
     connect_calls |-> 0,
     disconnect_calls |-> 0,
     history |-> <<>>]

\* Python truthiness of a string-valued field (None and "" are falsy).
Truthy(x) == x # None /\ x # ""

\* a or b
Or(a, b) == IF Truthy(a) THEN a ELSE b

\* Device.get_device_name: self.id or self.name or self.ip_address or self.mxid
get_device_name(device) ==
    Or(device.id, Or(device.name, Or(device.ip_address, device.mxid)))

---------------------------------------------------------------------------
\* Component descriptors.  handle = 0 is None; a built handle is the id of the
\* HubCamera whose capability object built it.

Camera(name, resolution, fps) ==
    [type |-> "Camera", name |-> name, resolution |-> resolution, fps |-> fps,
     input |-> 0, stream_enabled |-> FALSE, handle |-> 0]

NeuralNetwork(name, input) ==
    [type |-> "NeuralNetwork", name |-> name, resolution |-> None, fps |-> None,
     input |-> input, stream_enabled |-> FALSE, handle |-> 0]

Stereo ==
    [type |-> "Stereo", name |-> None, resolution |-> None, fps |-> None,
     input |-> 0, stream_enabled |-> FALSE, handle |-> 0]

\* Commands of the CommandHistory.  comp is the descriptor get_component()
\* returns (0: None, as for a CreateTriggerActionCommand).
Command(type, comp) == [type |-> type, comp |-> comp]

\* CommandHistory.push
push(history, command) == Append(history, command)

---------------------------------------------------------------------------
\* Device: component-creation methods (builder calls, no I/O).

\* get_camera without the `if name in self.cameras` check.
get_camera_unchecked(device, comps, name, resolution, fps) ==
    LET camera == Len(comps) + 1
    IN [device |-> [device EXCEPT !.cameras[name] = camera,
                                  !.history = push(@, Command("CreateCameraCommand",
                                                              camera))],
        components |-> Append(comps, Camera(name, resolution, fps)),
        ret |-> camera]

\* Device.get_camera
get_camera(device, comps, name, resolution, fps) ==
    IF device.cameras[name] # 0
    THEN [device |-> device, components |-> comps, ret |-> device.cameras[name]]
    ELSE LET camera == Len(comps) + 1
             command == Command("CreateCameraCommand", camera)
         IN [device |-> [device EXCEPT !.cameras[name] = camera,
                                       !.history = push(@, command)],
             components |-> Append(comps, Camera(name, resolution, fps)),
             ret |-> camera]

\* Device.create_neural_network; input = 0 is `input=None`.  The new descriptor
\* is never stored in self.neural_networks.
create_neural_network(device, comps, name, input) ==
    IF device.neural_networks[name] # 0
    THEN [raised |-> FALSE, device |-> device, components |-> comps,
          ret |-> device.neural_networks[name]]
    ELSE IF input = 0
    THEN [raised |-> TRUE, device |-> device, components |-> comps, ret |-> 0]
    ELSE LET neural_network == Len(comps) + 1
             command == Command("CreateNeuralNetworkCommand", neural_network)
         IN [raised |-> FALSE,
             device |-> [device EXCEPT !.history = push(@, command)],
             components |-> Append(comps, NeuralNetwork(name, input)),
             ret |-> neural_network]

\* get_stereo_camera without the `if self.stereo` check.
get_stereo_camera_unchecked(device, comps, resolution, fps) ==
    LET stereo == Len(comps) + 1
    IN [device |-> [device EXCEPT !.stereo = stereo,
                                  !.history = push(@, Command("CreateStereoCommand",
                                                              stereo))],
        components |-> Append(comps, [Stereo EXCEPT !.resolution = resolution,
                                                    !.fps = fps]),
        ret |-> stereo]

\* Device.get_stereo_camera (left_camera and right_camera left at None)
get_stereo_camera(device, comps, resolution, fps) ==
    IF device.stereo # 0
    THEN [device |-> device, components |-> comps, ret |-> device.stereo]
    ELSE LET stereo == Len(comps) + 1
             command == Command("CreateStereoCommand", stereo)
         IN [device |-> [device EXCEPT !.stereo = stereo,
                                       !.history = push(@, command)],
             components |-> Append(comps, [Stereo EXCEPT !.resolution = resolution,
                                                         !.fps = fps]),
             ret |-> stereo]

\* Device.add_trigger
add_trigger(device) ==
    [device EXCEPT !.history = push(@, Command("CreateTriggerActionCommand", 0))]

\* Streamable.stream_to_hub (unique_key left at its default, None)
stream_to_hub(component) == [component EXCEPT !.stream_enabled = TRUE]

\* The descriptors a device's commands populate.
DeviceComponents(device) ==
    {device.history[i].comp : i \in DOMAIN device.history} \ {0}

\* The application configures its devices before DeviceManager.start().
Configuring == mainPc = "idle"

NoteReturned(d, name, ret) ==
    returned' = [returned EXCEPT ![d][name] =
                    [ids |-> @.ids \cup {ret}, again |-> @.ids # {}]]

GetCamera(d, name, args) ==
    /\ Configuring
    /\ devices[d].cameras[name] # 0 \/ Len(devices[d].history) < MaxCommands
    /\ LET r == get_camera(devices[d], components, name, args[1], args[2])
       IN /\ devices' = [devices EXCEPT ![d] = r.device]
          /\ components' = r.components
          /\ NoteReturned(d, name, r.ret)
    /\ UNCHANGED <<last>>
    /\ UNCHANGED mgrVars

CreateNeuralNetwork(d, name, input) ==
    /\ Configuring
    /\ Len(devices[d].history) < MaxCommands
    /\ LET r == create_neural_network(devices[d], components, name, input)
       IN /\ ~r.raised
          /\ devices' = [devices EXCEPT ![d] = r.device]
          /\ components' = r.components
    /\ UNCHANGED <<last, returned>>
    /\ UNCHANGED mgrVars

GetStereoCamera(d) ==
    /\ Configuring
    /\ devices[d].stereo = 0
    /\ Len(devices[d].history) < MaxCommands
    /\ LET r == get_stereo_camera(devices[d], components, None, None)
       IN /\ devices' = [devices EXCEPT ![d] = r.device]
          /\ components' = r.components
    /\ UNCHANGED <<last, returned>>
    /\ UNCHANGED mgrVars

AddTrigger(d) ==
    /\ Configuring
    /\ Len(devices[d].history) < MaxCommands
    /\ devices' = [devices EXCEPT ![d] = add_trigger(@)]
    /\ UNCHANGED <<components, last, returned>>
    /\ UNCHANGED mgrVars

StreamToHub(c) ==
    /\ Configuring
    /\ ~components[c].stream_enabled
    /\ components' = [components EXCEPT ![c] = stream_to_hub(@)]
    /\ UNCHANGED <<devices, last, returned>>
    /\ UNCHANGED mgrVars

---------------------------------------------------------------------------
\* HubCamera: the adapter around one unit's capability object (OakCamera).

\* HubCamera.__init__ with the outcome of init_oak_camera: acquired says
\* whether OakCamera(...) could be constructed within the retry window, and
\* has_stereo whether camera.sensors holds both LEFT and RIGHT.
HubCamera(device_name, acquired, has_stereo, d) ==
    [device_name |-> device_name,
     state |-> "UNKNOWN",
     oak_camera |-> IF acquired THEN "open" ELSE None,
     stop_event |-> FALSE,
     streams |-> {},
     has_stereo |-> acquired /\ has_stereo,
     product_name |-> None,
     device |-> d,             \* the Device the attempt was made for
     unit |-> IF ~acquired \/ device_name = None THEN None
              ELSE IF has_stereo THEN "stereo"
              ELSE "mono"]     \* the sensors of the unit device_name names

\* A call the capability object (or the stream service) receives.
Call(op, cmd, source, resolution, fps) ==
    [op |-> op, cmd |-> cmd, source |-> source, resolution |-> resolution, fps |-> fps]

\* Streams.create_video raises TypeError for a camera_serial that is no string
\* and ValueError for a registered key.
create_video_raises(registry, camera_serial, unique_key) ==
    camera_serial = None \/ unique_key \in registry

\* The key HubCamera.create_stream derives when unique_key is None:
\* f'{device_name}_{component class}_{component.out.encoded.__name__}'
derived_key(device_name, component_type) == <<device_name, component_type, "encoded">>

\* HubCamera.create_stream for descriptor `component` (unique_key None).
\* _create_stream retries create_video after destroy_streams_by_id, which
\* raises for a key that is not registered.
\* `created` tells whether create_video returned a new StreamHandle.
create_stream(camera, registry, component) ==
    LET unique_key == derived_key(camera.device_name, component.type)
    IN IF unique_key \notin registry
          /\ create_video_raises(registry, camera.device_name, unique_key)
       THEN [raised |-> TRUE, camera |-> camera, created |-> FALSE]
       ELSE [raised |-> FALSE,
             camera |-> [camera EXCEPT !.streams = @ \cup {unique_key}],
             created |-> unique_key \notin registry]

\* HubCamera.create_stereo: RuntimeError for a unit without left and right
\* sensors, else the call is forwarded to the capability object.
create_stereo(camera) == [raised |-> ~camera.has_stereo]

\* A stop() that leaves the camera's stream registry as it is.
stop_streams_kept(camera, registry) ==
    [camera |-> [camera EXCEPT !.stop_event = TRUE,
                               !.state = "DISCONNECTED"],
     STREAMS |-> registry]

\* A stop() that leaves the stop event as it is.
stop_streams_unlatched(camera, registry) ==
    [camera |-> [camera EXCEPT !.streams = {},
                               !.state = "DISCONNECTED"],
     STREAMS |-> registry \ camera.streams]

\* HubCamera.stop, up to `self.state = DISCONNECTED`.  Streams.destroy pops a
\* registered key and raises ValueError (swallowed here) for any other.
stop_streams(camera, registry) ==
    [camera |-> [camera EXCEPT !.stop_event = TRUE,
                               !.streams = {},
                               !.state = "DISCONNECTED"],
     STREAMS |-> registry \ camera.streams]

\* HubCamera.stop, from `if self.oak_camera:` on.  An exception of
\* device.close() leaves the method before the last two assignments.
stop_close(camera, close_raises) ==
    IF camera.oak_camera # None /\ close_raises
    THEN [raised |-> TRUE, camera |-> camera]
    ELSE [raised |-> FALSE,
          camera |-> [camera EXCEPT !.oak_camera = None, !.has_stereo = FALSE]]

\* A stop() that does nothing.
HubCamera_left_running(camera, registry) == [camera |-> camera, STREAMS |-> registry]

\* HubCamera.stop when device.close() returns.
HubCamera_stop(camera, registry) ==
    LET s == stop_streams(camera, registry)
    IN [camera |-> stop_close(s.camera, FALSE).camera, STREAMS |-> s.STREAMS]

---------------------------------------------------------------------------
\* Commands: execute() against the bound HubCamera `cam` (its id).

\* CreateCameraCommand._get_default_resolution
_get_default_resolution(product_name) ==
    IF product_name = "OAK-D-LR" THEN "1200p"
    ELSE IF product_name = "OAK-D-SR" THEN "800p"
    ELSE "1080p"

\* CreateCameraCommand.execute, after hub_camera.create_camera returned
CreateCameraCommand_call(i, camera, product_name) ==
    Call("create_camera", i, camera.name,
         IF camera.resolution # None THEN camera.resolution
         ELSE _get_default_resolution(product_name),
         camera.fps)

\* Command.execute of history[i]: the call the capability object receives and
\* the descriptor whose handle is set.
execute(i, command, comps, cam, product_name) ==
    IF command.type = "CreateCameraCommand"
    THEN [call |-> CreateCameraCommand_call(i, comps[command.comp], product_name),
          components |-> [comps EXCEPT ![command.comp].handle = cam]]
    ELSE IF command.type = "CreateNeuralNetworkCommand"
    THEN [call |-> Call("create_nn", i, comps[command.comp].name, None, None),
          components |-> [comps EXCEPT ![command.comp].handle = cam]]
    ELSE IF command.type = "CreateStereoCommand"
    THEN [call |-> Call("create_stereo", i, None, None, None),
          components |-> [comps EXCEPT ![command.comp].handle = cam]]
    ELSE [call |-> Call("trigger_action", i, None, None, None),
          components |-> comps]

---------------------------------------------------------------------------
\* Device._start

\* What the environment does to one connection attempt.
\*   acquired     OakCamera(...) was constructed within the retry window
\*   has_stereo   the unit has left and right sensors
\*   product      the product name info_report() reads
\*   failAt       index of the command whose execute() raises (0: none)
\*   started      oak_camera.start() succeeds within the retry window
Env(acquired, has_stereo, product, failAt, started) ==
    [acquired |-> acquired, has_stereo |-> has_stereo, product |-> product,
     failAt |-> failAt, started |-> started]

\* Device._set_product_name
_set_product_name(device, product) ==
    IF device.hub_camera # 0 /\ ~Truthy(device.name)
    THEN [device EXCEPT !.name = product]
    ELSE device

\* `continue` of the replay loop: a stereo command on a unit without stereo.
Skipped(command, camera) ==
    command.type = "CreateStereoCommand" /\ ~camera.has_stereo

\* A replay that walks the history newest first.
RECURSIVE ReplayDown(_, _, _, _, _, _)
ReplayDown(i, device, camera, cam, env, acc) ==
    IF i < 1 THEN [acc EXCEPT !.ok = TRUE]
    ELSE LET command == device.history[i] IN
         IF Skipped(command, camera)
         THEN ReplayDown(i - 1, device, camera, cam, env, acc)
         ELSE IF i = env.failAt
         THEN [acc EXCEPT !.ok = FALSE, !.executed = Append(@, i)]
         ELSE LET r == execute(i, command, acc.components, cam, device.name)
              IN ReplayDown(i - 1, device, camera, cam, env,
                            [acc EXCEPT !.components = r.components,
                                        !.executed = Append(@, i),
                                        !.calls = Append(@, r.call)])

ReplayNewestFirst(i, device, camera, cam, env, acc) ==
    ReplayDown(Len(device.history), device, camera, cam, env, acc)

\* The replay loop of Device._start from command i on:
\* for command in self._command_history: ... command.execute()
RECURSIVE Replay(_, _, _, _, _, _)
Replay(i, device, camera, cam, env, acc) ==
    IF i > Len(device.history) THEN [acc EXCEPT !.ok = TRUE]
    ELSE LET command == device.history[i] IN
         IF Skipped(command, camera)
         THEN Replay(i + 1, device, camera, cam, env, acc)
         ELSE IF i = env.failAt
         THEN [acc EXCEPT !.ok = FALSE, !.executed = Append(@, i)]
         ELSE LET r == execute(i, command, acc.components, cam, device.name)
              IN Replay(i + 1, device, camera, cam, env,
                        [acc EXCEPT !.components = r.components,
                                    !.executed = Append(@, i),
                                    !.calls = Append(@, r.call)])

\* StreamCommand.execute.  The arguments of the create_stream call are
\* evaluated first, and `component.output_type` is an attribute no descriptor
\* class defines: the AttributeError leaves before hub_camera.create_stream
\* is called.
StreamCommand_execute(camera, registry, component) ==
    [raised |-> TRUE, camera |-> camera]

\* The stream loop of Device._start from command i on (outside the try).
RECURSIVE StreamPass(_, _, _, _, _)
StreamPass(i, device, comps, registry, acc) ==
    IF i > Len(device.history) THEN [acc EXCEPT !.raised = FALSE]
    ELSE LET command == device.history[i]
             component == command.comp
         IN IF command.type = "CreateStereoCommand" /\ comps[component].handle = 0
            THEN StreamPass(i + 1, device, comps, registry, acc)
            ELSE IF component # 0 /\ comps[component].stream_enabled
            THEN LET r == StreamCommand_execute(acc.camera, registry, comps[component])
                 IN IF r.raised
                    THEN [acc EXCEPT !.raised = TRUE, !.streamed = Append(@, i)]
                    ELSE StreamPass(i + 1, device, comps, registry,
                            [acc EXCEPT !.camera = r.camera,
                                        !.streamed = Append(@, i),
                                        !.calls = Append(@, Call("create_stream", i,
                                                     comps[component].type, None, None))])
            ELSE StreamPass(i + 1, device, comps, registry, acc)

\* Device._start(hub_camera): result is "True", "False" or "raised".
Device_start(device, comps, camera, cam, registry, env) ==
    IF camera.oak_camera = None
    THEN [result |-> "False", device |-> device, components |-> comps,
          camera |-> camera, executed |-> <<>>, streamed |-> <<>>, calls |-> <<>>]
    ELSE LET bound == _set_product_name([device EXCEPT !.hub_camera = cam], env.product)
             main == Replay(1, bound, camera, cam, env,
                            [ok |-> TRUE, components |-> comps,
                             executed |-> <<>>, calls |-> <<>>])
         IN IF ~main.ok
            THEN [result |-> "False", device |-> bound, components |-> main.components,
                  camera |-> camera, executed |-> main.executed, streamed |-> <<>>,
                  calls |-> main.calls]
            ELSE LET streams == StreamPass(1, bound, main.components, registry,
                                    [raised |-> FALSE, camera |-> camera,
                                     streamed |-> <<>>, calls |-> main.calls])
                 IN [result |-> IF streams.raised THEN "raised" ELSE "True",
                     device |-> bound, components |-> main.components,
                     camera |-> streams.camera,
                     executed |-> main.executed, streamed |-> streams.streamed,
                     calls |-> streams.calls]

---------------------------------------------------------------------------
\* DeviceManager

\* The live cameras of device d (positions in self._hub_cameras).
LiveOf(d) == {i \in DOMAIN live : hub_cameras[live[i]].device = d}

\* A unit accepts one connection at a time: OakCamera(...) cannot be
\* constructed while a capability object for the same unit is open.
UnitFree(d) ==
    \A c \in DOMAIN hub_cameras :
        hub_cameras[c].device = d => hub_cameras[c].oak_camera = None

\* list.remove(x): drops the first occurrence
Remove(seq, x) ==
    LET first == CHOOSE i \in DOMAIN seq :
                    seq[i] = x /\ \A j \in 1..(i - 1) : seq[j] # x
    IN [j \in 1..(Len(seq) - 1) |-> IF j < first THEN seq[j] ELSE seq[j + 1]]

\* DeviceManager._get_device_by_name: index of the first device whose
\* get_device_name() equals name, 0 for None.
_get_device_by_name(devs, name) ==
    IF \E d \in DOMAIN devs : get_device_name(devs[d]) = name
    THEN CHOOSE d \in DOMAIN devs :
            /\ get_device_name(devs[d]) = name
            /\ \A e \in 1..(d - 1) : get_device_name(devs[e]) # name
    ELSE 0

\* DeviceManager._connect_device(device) for the device at position d, under
\* self.lock.  An exception of Device._start is not caught here: it leaves
\* the new HubCamera as it is and propagates to the caller.
\* `before` holds the HubCameras created earlier, hub_camera is the new one.
_connect_device_from(d, env, before, hub_camera) ==
    LET device == devices[d]
        cam == Len(before) + 1
    IN \E s \in {Device_start(device, components, hub_camera, cam, STREAMS, env)} :
       LET named == [s.camera EXCEPT !.product_name = s.device.name]
           stopped == HubCamera_stop(IF s.result = "True" THEN named ELSE s.camera,
                                     STREAMS)
           start == IF s.result # "True" THEN None
                    ELSE IF env.started THEN "True" ELSE "False"
       IN
       /\ components' = s.components
       /\ last' = [result |-> s.result, started |-> start, executed |-> s.executed,
                   streamed |-> s.streamed, calls |-> s.calls,
                   device |-> d, camera |-> cam, acquired |-> env.acquired,
                   has_stereo |-> hub_camera.has_stereo,
                   failed |-> s.result = "raised"
                              \/ (s.result = "False" /\ env.acquired)]
       /\ IF s.result = "raised"
          THEN /\ devices' = [devices EXCEPT ![d] = s.device]
               /\ hub_cameras' = Append(before, s.camera)
               /\ UNCHANGED <<live, STREAMS>>
          ELSE IF start # "True"
          THEN /\ devices' = [devices EXCEPT ![d] = s.device]
               /\ hub_cameras' = Append(before, stopped.camera)
               /\ STREAMS' = stopped.STREAMS
               /\ UNCHANGED live
          ELSE /\ devices' = [devices EXCEPT ![d] =
                                 [s.device EXCEPT !.connect_calls = @ + 1]]
               /\ hub_cameras' = Append(before, [named EXCEPT !.state = "CONNECTED"])
               /\ live' = Append(live, cam)
               /\ UNCHANGED STREAMS

\* _connect_device as one step: the HubCamera is created and used at once.
_connect_device(d, env) ==
    _connect_device_from(d, env, hub_cameras,
                         HubCamera(Or(devices[d].ip_address, devices[d].mxid),
                                   env.acquired, env.has_stereo, d))

\* DeviceManager._disconnect_camera(camera), under self.lock
_disconnect_camera(cam) ==
    LET stopped == HubCamera_stop(hub_cameras[cam], STREAMS)
        device == _get_device_by_name(devices, hub_cameras[cam].device_name)
    IN /\ hub_cameras' = [hub_cameras EXCEPT ![cam] = stopped.camera]
       /\ STREAMS' = stopped.STREAMS
       /\ live' = Remove(live, cam)
       /\ devices' = IF device # 0
                     THEN [devices EXCEPT ![device].disconnect_calls = @ + 1]
                     ELSE devices

\* DeviceManager.start: the threads are started once a device is registered.
Start ==
    /\ mainPc = "idle"
    /\ Len(devices) > 0
    /\ mainPc' = "running"
    /\ connPc' = "top"
    /\ pollPc' = "top"
    /\ reporting' = [reporting EXCEPT !.pc = "top"]
    /\ UNCHANGED <<devices, components, hub_cameras, live, STREAMS, last, returned,
                   connIdx, mxids, pollIdx, stop_event>>
    /\ UNCHANGED <<stopping, call, handles, appVars>>

\* _connect, top of the loop: with every device connected it waits, else it
\* snapshots the names of the live cameras and walks self._devices.
ConnectTop ==
    /\ connPc = "top"
    /\ ~stop_event
    /\ Len(live) # Len(devices)
    /\ mxids' = {hub_cameras[live[i]].device_name : i \in DOMAIN live}
    /\ connIdx' = 1
    /\ connPc' = "iter"
    /\ UNCHANGED <<devices, components, hub_cameras, live, STREAMS, last, returned,
                   pollPc, pollIdx, stop_event, mainPc>>
    /\ UNCHANGED extVars

\* _connect: `while not self.stop_event.is_set()` ends the thread.
ConnectExit ==
    /\ connPc = "top"
    /\ stop_event
    /\ connPc' = "exit"
    /\ UNCHANGED <<devices, components, hub_cameras, live, STREAMS, last, returned,
                   connIdx, mxids, pollPc, pollIdx, stop_event, mainPc>>
    /\ UNCHANGED extVars

\* The sensors of the units that answered device d so far.
SensorsSeen(d) ==
    {hub_cameras[c].unit : c \in {k \in DOMAIN hub_cameras :
                                    /\ hub_cameras[k].device = d
                                    /\ hub_cameras[k].unit # None}}

\* The environments one connection attempt for device d can meet.  At most
\* one command raises, and the outcome of start() matters only when none did.
\* The sensors matter only to a device with a stereo command; an mxid or an
\* IP address names one unit, whose sensors are the same on every connection,
\* while OakCamera(None) takes whichever unit is available.
Envs(d) ==
    LET n == Len(devices[d].history)
        addressed == Truthy(Or(devices[d].ip_address, devices[d].mxid))
        sensors == IF devices[d].stereo = 0 THEN {TRUE}
                   ELSE IF addressed /\ SensorsSeen(d) # {}
                   THEN {"stereo" \in SensorsSeen(d)}
                   ELSE BOOLEAN
        names == IF Truthy(devices[d].name) THEN {devices[d].name} ELSE ProductNames
    IN {Env(FALSE, FALSE, "", 0, FALSE)}
       \cup (IF UnitFree(d)
             THEN {Env(TRUE, hs, p, f, FALSE) : hs \in sensors, p \in names, f \in 1..n}
                  \cup {Env(TRUE, hs, p, 0, st) :
                            hs \in sensors, p \in names, st \in BOOLEAN}
             ELSE {})

\* The connection thread after _connect_device: an exception ends it.
Raised == last'.result = "raised"

\* _connect, one step of `for device in self._devices`.
ConnectIter ==
    /\ connPc = "iter"
    /\ IF connIdx > Len(devices)
       THEN /\ connPc' = "top"
            /\ UNCHANGED <<devices, components, hub_cameras, live, STREAMS, last,
                           connIdx>>
       ELSE IF devices[connIdx].mxid \notin mxids
       THEN /\ Len(hub_cameras) < MaxCameras
            /\ \E env \in Envs(connIdx) : _connect_device(connIdx, env)
            /\ connPc' = IF Raised THEN "dead" ELSE connPc
            /\ connIdx' = IF Raised THEN connIdx ELSE connIdx + 1
       ELSE /\ connIdx' = connIdx + 1
            /\ UNCHANGED <<devices, components, hub_cameras, live, STREAMS, last,
                           connPc>>
    /\ UNCHANGED <<returned, mxids, pollPc, pollIdx, stop_event, mainPc>>
    /\ UNCHANGED extVars

\* _poll, top of the loop.
PollTop ==
    /\ pollPc = "top"
    /\ ~stop_event
    /\ pollIdx' = 1
    /\ pollPc' = "iter"
    /\ UNCHANGED <<devices, components, hub_cameras, live, STREAMS, last, returned,
                   connPc, connIdx, mxids, stop_event, mainPc>>
    /\ UNCHANGED extVars

PollExit ==
    /\ pollPc = "top"
    /\ stop_event
    /\ pollPc' = "exit"
    /\ UNCHANGED <<devices, components, hub_cameras, live, STREAMS, last, returned,
                   connPc, connIdx, mxids, pollIdx, stop_event, mainPc>>
    /\ UNCHANGED extVars

\* _poll, one step of `for camera in self._hub_cameras`: camera.poll() returns
\* a truthy or a falsy value, or raises (which ends the polling thread).
PollIter ==
    /\ pollPc = "iter"
    /\ IF pollIdx > Len(live)
       THEN /\ pollPc' = "top"
            /\ UNCHANGED <<devices, hub_cameras, live, STREAMS, pollIdx>>
       ELSE \E poll \in {"truthy", "falsy", "raises"} :
               IF poll = "truthy"
               THEN /\ pollIdx' = pollIdx + 1
                    /\ UNCHANGED <<devices, hub_cameras, live, STREAMS, pollPc>>
               ELSE IF poll = "falsy"
               THEN /\ _disconnect_camera(live[pollIdx])
                    /\ pollIdx' = pollIdx + 1
                    /\ UNCHANGED pollPc
               ELSE /\ pollPc' = "dead"
                    /\ UNCHANGED <<devices, hub_cameras, live, STREAMS, pollIdx>>
    /\ UNCHANGED <<components, last, returned, connPc, connIdx, mxids, stop_event, mainPc>>
    /\ UNCHANGED extVars

\* DeviceManager.stop, first statement: self.stop_event.set()
StopBegin ==
    /\ mainPc = "running"
    /\ stop_event' = TRUE
    /\ mainPc' = "stopping"
    /\ UNCHANGED <<devices, components, hub_cameras, live, STREAMS, last, returned,
                   connPc, connIdx, mxids, pollPc, pollIdx>>
    /\ UNCHANGED extVars

---------------------------------------------------------------------------
\* Specifications.

\* The reporting thread before its first pass: no camera taken, none published.
NoReport == [pc |-> "idle", idx |-> 0, start |-> <<>>, published |-> {}, caught |-> {}]

\* stop() before its first join.
NoStop == [join |-> 0, idx |-> 0, raised |-> {}]

\* No HubCamera method is being executed.
NoCall == [op |-> None, camera |-> 0, pc |-> "done", elapsed |-> 0, began |-> 0,
           attempts |-> 0, failures |-> 0, result |-> None, args |-> <<>>,
           wired |-> <<>>]

\* BaseApplication.__init__: no device, no device state, no device thread.
NoApp == [pc |-> "init", state |-> None, device |-> None, stopped |-> FALSE,
          elapsed |-> 0, attempts |-> 0, began |-> 0, failed |-> FALSE]

NoWatchDog == [started |-> FALSE]

\* FrameBuffer.__init__: no frame, no temporary queue; no save call yet.
NoFrameBuffer == [buffer |-> 0, temporary_queues |-> {}, saves |-> <<>>]

NoReturns == [n \in CameraNames |-> [ids |-> {}, again |-> FALSE]]
NoStart ==
    [result |-> None, started |-> None, executed |-> <<>>, streamed |-> <<>>,
     calls |-> <<>>,
     device |-> 0, camera |-> 0,
     acquired |-> FALSE, has_stereo |-> FALSE, failed |-> FALSE]

InitManager ==
    /\ hub_cameras = <<>>
    /\ live = <<>>
    /\ STREAMS = {}
    /\ last = NoStart
    /\ connPc = "idle"
    /\ connIdx = 0
    /\ mxids = {}
    /\ pollPc = "idle"
    /\ pollIdx = 0
    /\ stop_event = FALSE
    /\ mainPc = "idle"
    /\ reporting = NoReport
    /\ stopping = NoStop
    /\ call = NoCall
    /\ handles = <<>>
    /\ app = NoApp
    /\ watch_dog = NoWatchDog
    /\ frame_buffer = NoFrameBuffer

\* One registered device, not yet configured.  It is registered by id, so
\* that the unit that answers may differ from one connection to the next.
Init ==
    /\ devices = <<Device("id", 1)>>
    /\ components = <<>>
    /\ returned = <<NoReturns>>
    /\ InitManager

\* One pass of _connect with a single registered device: the device is
\* attempted when it has no live camera.
DevicePass ==
    /\ mainPc = "running"
    /\ connPc = "top"
    /\ Len(live) # Len(devices)
    /\ devices[1].mxid \notin {hub_cameras[live[i]].device_name : i \in DOMAIN live}
    /\ Len(hub_cameras) < MaxAttempts
    /\ \E env \in Envs(1) : _connect_device(1, env)
    /\ connPc' = IF Raised THEN "dead" ELSE connPc
    /\ UNCHANGED <<returned, connIdx, mxids, pollPc, pollIdx, stop_event, mainPc>>
    /\ UNCHANGED extVars

\* One pass of _poll in which camera.poll() of a live camera is falsy.
PollPass ==
    /\ mainPc = "running"
    /\ pollPc = "top"
    /\ \E i \in DOMAIN live : _disconnect_camera(live[i])
    /\ UNCHANGED <<components, last, returned, connPc, connIdx, mxids, pollPc, pollIdx,
                   stop_event, mainPc>>
    /\ UNCHANGED extVars

\* Device-level specification: one device is configured, then connected,
\* disconnected and reconnected by whole passes of the manager's loops.
Next ==
    \/ \E name \in CameraNames, args \in CameraArgs : GetCamera(1, name, args)
    \/ \E name \in NNNames, input \in DeviceComponents(devices[1]) :
            CreateNeuralNetwork(1, name, input)
    \/ GetStereoCamera(1)
    \/ AddTrigger(1)
    \/ \E c \in DeviceComponents(devices[1]) : StreamToHub(c)
    \/ Start
    \/ DevicePass
    \/ PollPass

Spec == Init /\ [][Next]_vars

\* Manager-level specification: the connection and polling threads, step by
\* step, over two configured devices.
Manage ==
    \/ Start
    \/ ConnectTop
    \/ ConnectIter
    \/ ConnectExit
    \/ PollTop
    \/ PollIter
    \/ PollExit
    \/ StopBegin

\* A device as an application sets it up before start(): a color camera,
\* streamed to the hub or not.
Configured(kind, i, comps, streamed) ==
    LET r == get_camera(Device(kind, i), comps, "color", None, None)
    IN [device |-> r.device,
        components |-> IF streamed
                       THEN [r.components EXCEPT ![r.ret] = stream_to_hub(@)]
                       ELSE r.components]

InitMgr ==
    /\ \E k1 \in DeviceKinds, k2 \in DeviceKinds, s1 \in BOOLEAN, s2 \in BOOLEAN :
          LET first == Configured(k1, 1, <<>>, s1)
              second == Configured(k2, 2, first.components, s2)
          IN /\ devices = <<first.device, second.device>>
             /\ components = second.components
    /\ returned = <<NoReturns, NoReturns>>
    /\ InitManager

SpecMgr == InitMgr /\ [][Manage]_vars

---------------------------------------------------------------------------
\* Properties of Device (checked under Spec).

\* The command history of the device the latest Device._start ran for.
LastHistory == devices[last.device].history

\* The commands the latest replay had to skip.
LastSkipped ==
    {i \in DOMAIN LastHistory :
        LastHistory[i].type = "CreateStereoCommand" /\ ~last.has_stereo}

\* C1: one Device._start invokes execute() on the commands of the history in
\* push order, none twice: the sequence of execute() calls is a subsequence of
\* c1..cn, and it holds every command that was not skipped whenever the
\* replay ran to its end.
C1_ExecutesInPushOrder ==
    last.result # None =>
        /\ \A k \in DOMAIN last.executed : last.executed[k] \in DOMAIN LastHistory
        /\ \A j, k \in DOMAIN last.executed :
              j < k => last.executed[j] < last.executed[k]
        /\ last.result \in {"True", "raised"} =>
              {last.executed[k] : k \in DOMAIN last.executed}
                  = DOMAIN LastHistory \ LastSkipped

\* A replay that executed two commands or more and ran to its end.
C1_Witness ==
    /\ last.result = "True"
    /\ Len(last.executed) >= 2

\* The CreateCameraCommands of device d for the camera called name.
CameraCommands(d, name) ==
    {i \in DOMAIN devices[d].history :
        /\ devices[d].history[i].type = "CreateCameraCommand"
        /\ components[devices[d].history[i].comp].name = name}

\* C2: after one or more get_camera calls with a name, every call returned
\* the same Camera descriptor and the history holds exactly one
\* CreateCameraCommand for that name.
C2_GetCameraIdempotent ==
    \A d \in DOMAIN devices, name \in CameraNames :
        returned[d][name].ids # {} =>
            /\ returned[d][name].ids = {devices[d].cameras[name]}
            /\ Cardinality(CameraCommands(d, name)) = 1

\* get_camera was called again with a name already requested.
C2_Witness ==
    \E d \in DOMAIN devices, name \in CameraNames : returned[d][name].again


\* C3: Device._start never raises: when a command it executes raises, in the
\* main replay or in the stream pass, it returns False, and it returns True
\* only when every command it executed completed.
C3_StartNeverRaises ==
    /\ last.result # "raised"
    /\ last.failed => last.result = "False"
    /\ last.result = "True" => ~last.failed

\* The stereo-creation commands of the history the latest _start replayed.
StereoCommands ==
    {i \in DOMAIN LastHistory : LastHistory[i].type = "CreateStereoCommand"}

\* No command of the latest _start raised, a StreamCommand for the Stereo
\* descriptor aside.
OthersSucceed ==
    /\ last.result # "False"
    /\ \A k \in DOMAIN last.streamed : last.streamed[k] \in StereoCommands

CallsOf(op, i) ==
    {k \in DOMAIN last.calls : last.calls[k].op = op /\ last.calls[k].cmd = i}

\* C5: in a Device._start on which no call of the capability object fails,
\* the capability object receives exactly one create_camera call per Camera
\* descriptor, with that descriptor's source and fps and the resolution the
\* descriptor asks for, and exactly one stream-creation call per built
\* component with streaming enabled, none for any other component.
C5_OneCallPerDescriptor ==
    (last.acquired /\ last.result # "False") =>
        \A i \in DOMAIN LastHistory :
            LET command == LastHistory[i]
                component == components[command.comp]
            IN /\ command.type = "CreateCameraCommand" =>
                    /\ Cardinality(CallsOf("create_camera", i)) = 1
                    /\ \A k \in CallsOf("create_camera", i) :
                          /\ last.calls[k].source = component.name
                          /\ component.resolution # None =>
                                last.calls[k].resolution = component.resolution
                          /\ last.calls[k].fps = component.fps
               /\ command.comp # 0 =>
                    Cardinality(CallsOf("create_stream", i)) =
                        IF component.stream_enabled /\ component.handle # 0
                        THEN 1 ELSE 0

---------------------------------------------------------------------------
\* Properties of DeviceManager (checked under SpecMgr).

\* The HubCameras of the live list.
Live == {live[i] : i \in DOMAIN live}

\* A connection attempt was made: a HubCamera was created.
Attempted == Len(hub_cameras') = Len(hub_cameras) + 1

\* The latest connection attempt succeeded: Device._start and HubCamera.start
\* both returned True.
Succeeded == last.result = "True" /\ last.started = "True"

\* C7: the connect-callback is invoked exactly once for a connection attempt
\* in which Device._start and HubCamera.start both succeeded, and never for
\* a failed attempt; the HubCamera of a failed attempt is stopped and is not
\* added to the live list.
C7_ConnectCallbackOncePerSuccess ==
    [][Attempted =>
          LET c == Len(hub_cameras')
              d == last'.device
          IN IF Succeeded'
             THEN /\ devices'[d].connect_calls = devices[d].connect_calls + 1
                  /\ live' = Append(live, c)
             ELSE /\ devices'[d].connect_calls = devices[d].connect_calls
                  /\ live' = live
                  /\ hub_cameras'[c].stop_event
                  /\ hub_cameras'[c].oak_camera = None]_vars

\* C8: a connection attempt is made only for a device without a live
\* HubCamera, and no device has two HubCameras in the live list.
C8_AtMostOneLiveCamera ==
    [][/\ Attempted => LiveOf(last'.device) = {}
       /\ \A d \in DOMAIN devices : Cardinality(LiveOf(d)) <= 1]_vars

\* C9: when poll() of a live camera is falsy, the polling loop removes the
\* camera from the live list and invokes the disconnect-callback of the
\* Device the camera was connected for.
C9_DisconnectCallback ==
    [][Len(live') < Len(live) =>
          LET c == live[pollIdx]
              d == hub_cameras[c].device
          IN /\ \A i \in DOMAIN live' : live'[i] # c
             /\ devices'[d].disconnect_calls = devices[d].disconnect_calls + 1]_vars

\* Device d was attempted and every attempt failed.
FailedAttempt(d) ==
    /\ devices[d].connect_calls = 0
    /\ \E c \in DOMAIN hub_cameras : hub_cameras[c].device = d

\* C10: on every pass over the devices the connection loop attempts a
\* device whose attempt failed whenever that device has no live camera.
C10_RetriedEveryPass ==
    [][(/\ connPc = "iter"
        /\ connIdx \in DOMAIN devices
        /\ connIdx' = connIdx + 1
        /\ FailedAttempt(connIdx)
        /\ LiveOf(connIdx) = {})
       => Len(hub_cameras') = Len(hub_cameras) + 1]_vars

---------------------------------------------------------------------------
\* Properties of the manager's loops (C11 under SpecMgr).

\* C11: no failure during connect/disconnect cycling raises out of the
\* connection loop or the polling loop: neither thread is ever ended by an
\* exception, so both keep running until the stop event is set.
C11_LoopsKeepRunning == connPc # "dead" /\ pollPc # "dead"

---------------------------------------------------------------------------
\* DeviceManager: the reporting thread and stop().

\* What can raise in one camera's turn of _report: nothing, or one of the
\* four calls of the try block.
ReportOutcomes ==
    {None, "info_report", "stats_report", "publish_device_info", "publish_device_stats"}

\* The same turn without its `except Exception`.
report_uncaught(raises) ==
    [info |-> raises \in {None, "publish_device_stats"},
     stats |-> raises = None,
     propagates |-> raises # None]

\* One camera's turn in _report: both reports are built, then both are
\* published; `except Exception` ends the turn at the first call that raises.
report(raises) ==
    [info |-> raises \in {None, "publish_device_stats"},
     stats |-> raises = None,
     propagates |-> FALSE]

\* _report, top of the loop: `while not self.stop_event.is_set()`.
ReportTop ==
    /\ reporting.pc = "top"
    /\ ~stop_event
    /\ reporting' = [pc |-> "iter", idx |-> 1, start |-> live,
                     published |-> {}, caught |-> {}]
    /\ UNCHANGED <<devices, components, hub_cameras, live, STREAMS, last, returned,
                   connPc, connIdx, mxids, pollPc, pollIdx, stop_event, mainPc,
                   stopping, call, handles, appVars>>

\* A reporting loop that does not look at the stop event.
ReportIgnoringStop ==
    /\ reporting.pc = "top"
    /\ stop_event
    /\ reporting' = [pc |-> "iter", idx |-> 1, start |-> live,
                     published |-> {}, caught |-> {}]
    /\ UNCHANGED <<devices, components, hub_cameras, live, STREAMS, last, returned,
                   connPc, connIdx, mxids, pollPc, pollIdx, stop_event, mainPc,
                   stopping, call, handles, appVars>>

\* _report: `while not self.stop_event.is_set()` ends the thread.
ReportExit ==
    /\ reporting.pc = "top"
    /\ stop_event
    /\ reporting' = [reporting EXCEPT !.pc = "exit"]
    /\ UNCHANGED <<devices, components, hub_cameras, live, STREAMS, last, returned,
                   connPc, connIdx, mxids, pollPc, pollIdx, stop_event, mainPc,
                   stopping, call, handles, appVars>>

\* _report, one step of `for camera in self._hub_cameras` (the list itself,
\* not a copy), or the wait after the last camera.
ReportIter ==
    /\ reporting.pc = "iter"
    /\ IF reporting.idx > Len(live)
       THEN reporting' = [reporting EXCEPT !.pc = "top"]
       ELSE \E raises \in ReportOutcomes :
               LET camera == live[reporting.idx]
                   r == report(raises)
               IN reporting' =
                    IF r.propagates THEN [reporting EXCEPT !.pc = "dead"]
                    ELSE [reporting EXCEPT
                            !.idx = @ + 1,
                            !.published = IF r.info /\ r.stats
                                          THEN @ \cup {camera} ELSE @,
                            !.caught = IF raises # None THEN @ \cup {camera} ELSE @]
    /\ UNCHANGED <<devices, components, hub_cameras, live, STREAMS, last, returned,
                   connPc, connIdx, mxids, pollPc, pollIdx, stop_event, mainPc,
                   stopping, call, handles, appVars>>

\* A join that never waits.
never_alive(pc) == FALSE

\* Thread.is_alive(): the target function has been entered and has not yet
\* returned or raised.
is_alive(pc) == pc \notin {"idle", "exit", "dead"}

\* The threads in the order stop() joins them.
JoinedThreads == <<connPc, reporting.pc, pollPc>>

\* stop(), one __graceful_thread_join: join() is called only on a thread that
\* is alive, and returns once it is not.
StopJoin ==
    /\ mainPc = "stopping"
    /\ ~is_alive(JoinedThreads[stopping.join + 1])
    /\ stopping' = [stopping EXCEPT !.join = @ + 1]
    /\ mainPc' = IF stopping.join + 1 = Len(JoinedThreads) THEN "joined" ELSE mainPc
    /\ UNCHANGED <<devices, components, hub_cameras, live, STREAMS, last, returned,
                   connPc, connIdx, mxids, pollPc, pollIdx, stop_event,
                   reporting, call, handles, appVars>>

\* stop(): STREAMS.destroy_all_streams() inside try/except BaseException.
StopDestroyStreams ==
    /\ mainPc = "joined"
    /\ STREAMS' = {}
    /\ handles' = [h \in DOMAIN handles |->
                     IF handles[h].unique_key \in STREAMS
                     THEN [handles[h] EXCEPT !.destroyed = TRUE] ELSE handles[h]]
    /\ stopping' = [stopping EXCEPT !.idx = 1]
    /\ mainPc' = "closing"
    /\ UNCHANGED <<devices, components, hub_cameras, live, last, returned,
                   connPc, connIdx, mxids, pollPc, pollIdx, stop_event,
                   reporting, call, appVars>>

\* stop(), one step of `for camera in self._hub_cameras`: camera.stop() inside
\* try/except BaseException, for a camera that is not DISCONNECTED.
StopCamera ==
    /\ mainPc = "closing"
    /\ IF stopping.idx > Len(live)
       THEN /\ mainPc' = "stopped"
            /\ UNCHANGED <<hub_cameras, STREAMS, stopping>>
       ELSE LET cam == live[stopping.idx]
            IN /\ UNCHANGED mainPc
               /\ IF hub_cameras[cam].state = "DISCONNECTED"
                  THEN /\ stopping' = [stopping EXCEPT !.idx = @ + 1]
                       /\ UNCHANGED <<hub_cameras, STREAMS>>
                  ELSE \E close_raises \in BOOLEAN :
                         LET s == stop_streams(hub_cameras[cam], STREAMS)
                             c == stop_close(s.camera, close_raises)
                         IN /\ hub_cameras' = [hub_cameras EXCEPT ![cam] = c.camera]
                            /\ STREAMS' = s.STREAMS
                            /\ stopping' = [stopping EXCEPT
                                               !.idx = @ + 1,
                                               !.raised = IF c.raised
                                                          THEN @ \cup {cam} ELSE @]
    /\ UNCHANGED <<devices, components, live, last, returned,
                   connPc, connIdx, mxids, pollPc, pollIdx, stop_event,
                   reporting, call, handles, appVars>>

\* _connect begins a pass for which the model has room: one attempt for
\* every registered device.
ConnectTopBounded ==
    /\ Len(hub_cameras) + Len(devices) <= MaxAttempts
    /\ ConnectTop

ConnectionThread == ConnectTopBounded \/ ConnectIter \/ ConnectExit
PollingThread == PollTop \/ PollIter \/ PollExit
ReportingThread == ReportTop \/ ReportIter \/ ReportExit
MainThread == Start \/ StopBegin \/ StopJoin \/ StopDestroyStreams \/ StopCamera

\* Shutdown-level specification: the three threads of the manager and stop(),
\* step by step, over two devices registered by mxid; the second one may
\* stream its camera to the hub.
NextStop ==
    \/ Start
    \/ ConnectTopBounded
    \/ ConnectIter
    \/ ConnectExit
    \/ PollTop
    \/ PollIter
    \/ PollExit
    \/ ReportTop
    \/ ReportIter
    \/ ReportExit
    \/ StopBegin
    \/ StopJoin
    \/ StopDestroyStreams
    \/ StopCamera

InitStop ==
    /\ \E s2 \in BOOLEAN :
          LET first == Configured("mxid", 1, <<>>, FALSE)
              second == Configured("mxid", 2, first.components, s2)
          IN /\ devices = <<first.device, second.device>>
             /\ components = second.components
    /\ returned = <<NoReturns, NoReturns>>
    /\ InitManager

SpecStop == InitStop /\ [][NextStop]_vars

\* The same threads over a single device, which may stream its camera.
InitShutdown ==
    /\ \E s1 \in BOOLEAN :
          LET first == Configured("mxid", 1, <<>>, s1)
          IN /\ devices = <<first.device>>
             /\ components = first.components
    /\ returned = <<NoReturns>>
    /\ InitManager

\* Every thread that can take a step eventually takes one: the operating
\* system schedules each of them, and every step returns.
SpecShutdown ==
    /\ InitShutdown
    /\ [][NextStop]_vars
    /\ WF_vars(ConnectionThread)
    /\ WF_vars(PollingThread)
    /\ WF_vars(ReportingThread)
    /\ WF_vars(MainThread)

---------------------------------------------------------------------------
\* Properties of the reporting thread and of stop() (checked under SpecStop;
\* C13 under SpecShutdown).

\* The reporting thread takes the camera at its position.
Reported ==
    /\ reporting.pc = "iter"
    /\ reporting.idx <= Len(live)
    /\ reporting' # reporting

\* The reporting thread ends a pass during which the live list stayed as it
\* was when the pass began.
PassEnds ==
    /\ reporting.pc = "iter"
    /\ reporting'.pc = "top"
    /\ live = reporting.start

C14_AllClosedAfterStop ==
    mainPc = "stopped" =>
        \A i \in DOMAIN live : hub_cameras[live[i]].oak_camera = None

---------------------------------------------------------------------------
\* HubCamera, method by method: init_oak_camera and start with their retry
\* loops, create_stream called by the application, stop in its two parts.

\* Seconds one construction or start attempt of the capability object takes.
CallDurations == {2, 3}

\* The components the application streams from.
StreamedComponents == {Camera("color", None, None), Stereo}

\* The device name HubCamera objects are constructed with: one unit, which
\* has a left and a right sensor.
DeviceNames == {MxIds[1]}

\* OakCamera(device_name) can succeed only while no other HubCamera holds a
\* capability object: the unit is busy otherwise.
CanAcquire(cam) ==
    \A c \in DOMAIN hub_cameras : c # cam => hub_cameras[c].oak_camera = None

Idle == call.pc = "done"

\* The call `op` on HubCamera `cam` as it is entered.
Entered(op, cam) ==
    [op |-> op, camera |-> cam, pc |-> "loop", elapsed |-> 0, began |-> 0,
     attempts |-> 0, failures |-> 0, result |-> None, args |-> <<>>,
     wired |-> <<>>]

\* The call in progress returns (or raises) `result`.
Returns(c, result) == [c EXCEPT !.pc = "done", !.result = result]

\* A retry loop with no time limit.
never_gives_up(elapsed, window) == FALSE

\* A loop that does not retry.
gives_up_at_once(elapsed, window) == TRUE

\* `if time.time() - start_time > 10` (init_oak_camera) and
\* `if time.monotonic() - start_time > 10` (start), after a failed attempt.
gives_up(elapsed, window) == elapsed > window

\* HubCamera.__init__: the fields are set, then init_oak_camera is entered.
NewHubCamera ==
    /\ Idle
    /\ Len(hub_cameras) < MaxAttempts
    /\ \E name \in DeviceNames :
          hub_cameras' = Append(hub_cameras, HubCamera(name, FALSE, FALSE, 1))
    /\ call' = Entered("init_oak_camera", Len(hub_cameras) + 1)
    /\ UNCHANGED <<devices, components, live, STREAMS, last, returned, connPc, connIdx,
                   mxids, pollPc, pollIdx, stop_event, mainPc, reporting, stopping,
                   handles, appVars>>

\* Device.restart: init_oak_camera is entered again on an existing HubCamera.
InitAgain ==
    /\ Idle
    /\ \E cam \in DOMAIN hub_cameras :
          /\ hub_cameras[cam].oak_camera = None
          /\ call' = Entered("init_oak_camera", cam)
    /\ UNCHANGED <<devices, components, hub_cameras, live, STREAMS, last, returned,
                   connPc, connIdx, mxids, pollPc, pollIdx, stop_event, mainPc,
                   reporting, stopping, handles, appVars>>

\* init_oak_camera, one turn of `while not self.stop_event.is_set()`: the
\* loop is left when the event is set; else OakCamera(...) is constructed and
\* returned, or it raises and the loop waits or, the window over, breaks.
\* The caller assigns the returned value to self.oak_camera.
InitAttempt ==
    /\ call.op = "init_oak_camera"
    /\ call.pc = "loop"
    /\ LET cam == call.camera
       IN IF hub_cameras[cam].stop_event
          THEN /\ call' = Returns(call, None)
               /\ hub_cameras' = [hub_cameras EXCEPT ![cam].oak_camera = None]
          ELSE \E ok \in {FALSE, CanAcquire(cam)}, d \in CallDurations :
                 LET tried == [call EXCEPT !.attempts = @ + 1,
                                           !.began = call.elapsed,
                                           !.elapsed = @ + d,
                                           !.failures = IF ok THEN @ ELSE @ + 1]
                 IN IF ok
                    THEN /\ call' = Returns(tried, "open")
                         /\ hub_cameras' =
                              [hub_cameras EXCEPT
                                 ![cam].oak_camera = "open",
                                 ![cam].has_stereo = TRUE,
                                 ![cam].unit = "stereo"]
                    ELSE IF gives_up(tried.elapsed, InitWindow)
                    THEN /\ call' = Returns(tried, None)
                         /\ hub_cameras' = [hub_cameras EXCEPT ![cam].oak_camera = None]
                    ELSE /\ call' = [tried EXCEPT !.pc = "wait"]
                         /\ UNCHANGED hub_cameras
    /\ UNCHANGED <<devices, components, live, STREAMS, last, returned, connPc, connIdx,
                   mxids, pollPc, pollIdx, stop_event, mainPc, reporting, stopping,
                   handles, appVars>>

\* self.stop_event.wait(1) in either loop: it returns at once when the event
\* is set.
Wait ==
    /\ call.pc = "wait"
    /\ call' = [call EXCEPT
                  !.pc = "loop",
                  !.elapsed = IF hub_cameras[call.camera].stop_event THEN @
                              ELSE IF call.op = "start" THEN @ + StartWait
                              ELSE @ + InitWait]
    /\ UNCHANGED <<devices, components, hub_cameras, live, STREAMS, last, returned,
                   connPc, connIdx, mxids, pollPc, pollIdx, stop_event, mainPc,
                   reporting, stopping, handles, appVars>>

\* HubCamera.start is entered: a CONNECTED camera returns True at once.
StartCall ==
    /\ Idle
    /\ \E cam \in DOMAIN hub_cameras :
          call' = IF hub_cameras[cam].state = "CONNECTED"
                  THEN Returns(Entered("start", cam), "True")
                  ELSE Entered("start", cam)
    /\ UNCHANGED <<devices, components, hub_cameras, live, STREAMS, last, returned,
                   connPc, connIdx, mxids, pollPc, pollIdx, stop_event, mainPc,
                   reporting, stopping, handles, appVars>>

\* start, one turn of `while not self.stop_event.is_set()`: with the event
\* set the method falls off its end (None).  self.oak_camera.start() raises
\* AttributeError without a capability object; attempts counts the calls the
\* capability object received.
StartAttempt ==
    /\ call.op = "start"
    /\ call.pc = "loop"
    /\ LET cam == call.camera
           present == hub_cameras[cam].oak_camera # None
       IN IF hub_cameras[cam].stop_event
          THEN /\ call' = Returns(call, None)
               /\ UNCHANGED hub_cameras
          ELSE \E ok \in {FALSE, present}, d \in CallDurations :
                 LET tried == [call EXCEPT
                                 !.attempts = IF present THEN @ + 1 ELSE @,
                                 !.began = call.elapsed,
                                 !.elapsed = @ + d,
                                 !.failures = IF present /\ ~ok THEN @ + 1 ELSE @]
                 IN IF ok
                    THEN /\ call' = Returns(tried, "True")
                         /\ hub_cameras' = [hub_cameras EXCEPT ![cam].state = "CONNECTED"]
                    ELSE /\ call' = IF gives_up(tried.elapsed, StartWindow)
                                    THEN Returns(tried, "False")
                                    ELSE [tried EXCEPT !.pc = "wait"]
                         /\ UNCHANGED hub_cameras
    /\ UNCHANGED <<devices, components, live, STREAMS, last, returned, connPc, connIdx,
                   mxids, pollPc, pollIdx, stop_event, mainPc, reporting, stopping,
                   handles, appVars>>

\* The StreamHandle objects Streams.destroy reaches from stop(): destroy pops
\* and destroys the handle of a registered key only.
destroyed_by_stop(hs, camera, registry) ==
    [h \in DOMAIN hs |->
        IF hs[h].unique_key \in camera.streams \cap registry
        THEN [hs[h] EXCEPT !.destroyed = TRUE] ELSE hs[h]]

\* The callback and visualizer_callback arguments of create_stream: None or
\* a function of the application.
Callbacks == {None, "callback"}
VisualizerCallbacks == {None, "visualizer_callback"}

\* callbacks.get_default_callback(stream_handle, visualizer_callback): the
\* internally generated callback, which publishes to the stream handle.
get_default_callback(visualizer_callback) == "default"

\* A wiring that adds the generated callback to the caller's.
_add_stream_callback_both(callback, visualizer_callback) ==
    (IF callback # None
     THEN <<[output |-> "encoded", callback |-> callback, enable_visualizer |-> TRUE]>>
     ELSE <<>>)
    \o <<[output |-> "encoded", callback |-> get_default_callback(visualizer_callback),
          enable_visualizer |-> visualizer_callback # None]>>

\* HubCamera._add_stream_callback: the oak_camera.callback calls it makes on
\* component.out.encoded.  fn = callback or get_default_callback(...).
_add_stream_callback(callback, visualizer_callback) ==
    LET fn == IF callback # None THEN callback
              ELSE get_default_callback(visualizer_callback)
    IN IF fn # None
       THEN <<[output |-> "encoded", callback |-> fn,
               enable_visualizer |-> callback # None \/ visualizer_callback # None]>>
       ELSE <<>>

\* HubCamera.create_stream(component, unique_key=None, name, callback,
\* visualizer_callback), called by the application on a camera whose
\* capability object it was handed.
CreateStream ==
    /\ Idle
    /\ Len(handles) < MaxHandles
    /\ \E cam \in DOMAIN hub_cameras, component \in StreamedComponents,
          callback \in Callbacks, visualizer_callback \in VisualizerCallbacks :
          LET r == create_stream(hub_cameras[cam], STREAMS, component)
              key == derived_key(hub_cameras[cam].device_name, component.type)
          IN /\ hub_cameras[cam].oak_camera # None
             /\ hub_cameras' = [hub_cameras EXCEPT ![cam] = r.camera]
             /\ handles' = IF r.created
                           THEN Append(handles,
                                       [unique_key |-> key, camera |-> cam,
                                        camera_serial |-> hub_cameras[cam].device_name,
                                        destroyed |-> FALSE])
                           ELSE handles
             /\ call' = [Returns(Entered("create_stream", cam),
                                 IF r.raised THEN "raised" ELSE None)
                           EXCEPT !.args = <<callback, visualizer_callback>>,
                                  !.wired = IF r.raised THEN <<>>
                                            ELSE _add_stream_callback(
                                                    callback, visualizer_callback)]
    /\ UNCHANGED <<devices, components, live, STREAMS, last, returned, connPc, connIdx,
                   mxids, pollPc, pollIdx, stop_event, mainPc, reporting, stopping, appVars>>

\* HubCamera.stop, first part: the event is set, the streams are destroyed
\* and forgotten, the state becomes DISCONNECTED.
StopCall ==
    /\ Idle
    /\ \E cam \in DOMAIN hub_cameras :
          LET s == stop_streams(hub_cameras[cam], STREAMS)
          IN /\ hub_cameras' = [hub_cameras EXCEPT ![cam] = s.camera]
             /\ STREAMS' = s.STREAMS
             /\ handles' = destroyed_by_stop(handles, hub_cameras[cam], STREAMS)
             /\ call' = [Entered("stop", cam) EXCEPT !.pc = "close"]
    /\ UNCHANGED <<devices, components, live, last, returned, connPc, connIdx,
                   mxids, pollPc, pollIdx, stop_event, mainPc, reporting, stopping, appVars>>

\* HubCamera.stop, second part: the capability object, if any, is closed.
StopClose ==
    /\ call.op = "stop"
    /\ call.pc = "close"
    /\ \E close_raises \in BOOLEAN :
          LET c == stop_close(hub_cameras[call.camera], close_raises)
          IN /\ close_raises => c.raised
             /\ hub_cameras' = [hub_cameras EXCEPT ![call.camera] = c.camera]
             /\ call' = Returns(call, IF c.raised THEN "raised" ELSE None)
    /\ UNCHANGED <<devices, components, live, STREAMS, last, returned, connPc, connIdx,
                   mxids, pollPc, pollIdx, stop_event, mainPc, reporting, stopping,
                   handles, appVars>>

\* stop() called by another thread while start() waits between two tries.
ConcurrentStop ==
    /\ call.op = "start"
    /\ call.pc = "wait"
    /\ ~hub_cameras[call.camera].stop_event
    /\ \E close_raises \in BOOLEAN :
          LET s == stop_streams(hub_cameras[call.camera], STREAMS)
              c == stop_close(s.camera, close_raises)
          IN /\ close_raises => c.raised
             /\ hub_cameras' = [hub_cameras EXCEPT ![call.camera] = c.camera]
             /\ STREAMS' = s.STREAMS
             /\ handles' = destroyed_by_stop(handles, hub_cameras[call.camera], STREAMS)
    /\ UNCHANGED <<devices, components, live, last, returned, connPc, connIdx,
                   mxids, pollPc, pollIdx, stop_event, mainPc, reporting, stopping,
                   call, appVars>>

\* Camera-level specification: HubCamera objects for one unit, their methods
\* called one at a time.
NextCam ==
    \/ NewHubCamera
    \/ InitAgain
    \/ InitAttempt
    \/ Wait
    \/ StartCall
    \/ StartAttempt
    \/ CreateStream
    \/ StopCall
    \/ StopClose
    \/ ConcurrentStop

InitCam ==
    /\ devices = <<Device("mxid", 1)>>
    /\ components = <<>>
    /\ returned = <<NoReturns>>
    /\ InitManager

SpecCam == InitCam /\ [][NextCam]_vars

---------------------------------------------------------------------------
\* Properties of HubCamera (checked under SpecCam).

\* The HubCamera the call in progress, or the latest call, is made on.
Callee == hub_cameras[call.camera]

Returned(op) == call.op = op /\ call.pc = "done"

C16_RetriesUntilStarted ==
    Returned("start") =>
        /\ call.attempts > call.failures =>
              /\ call.result = "True"
              /\ call.attempts = call.failures + 1
              /\ Callee.state = "CONNECTED"
        /\ call.result = "False" => call.elapsed > StartWindow
        /\ call.result \notin {"True", "False"} => Callee.stop_event

\* start() returned True at the third call of the capability's start().
C16_Witness ==
    /\ Returned("start")
    /\ call.result = "True"
    /\ call.failures = 2
    /\ call.attempts = 3
    /\ Callee.state = "CONNECTED"

\* C17: start() returns True exactly when it has set the state to CONNECTED,
\* and False, with the state not CONNECTED, in every other outcome; it never
\* raises.
C17_StartReturnsBool ==
    Returned("start") =>
        /\ call.result \in {"True", "False"}
        /\ call.result = "True" <=> Callee.state = "CONNECTED"

Registered(h) ==
    \A g \in DOMAIN handles :
        /\ handles[g].camera = handles[h].camera
        /\ handles[g].unique_key = handles[h].unique_key
        => g <= h

\* C19: after stop() has returned, the camera's stream registry is empty,
\* every stream it held has been destroyed, the state is DISCONNECTED, the
\* capability object is closed and the sensor metadata is empty.
C19_StopReleasesEverything ==
    Returned("stop") /\ call.result = None =>
        /\ Callee.streams = {}
        /\ Callee.state = "DISCONNECTED"
        /\ Callee.oak_camera = None
        /\ ~Callee.has_stereo
        /\ \A h \in DOMAIN handles :
               handles[h].camera = call.camera /\ Registered(h) => handles[h].destroyed

\* C20: create_stream calls with unique_key None for the same component and
\* device share one stream handle: at most one live handle exists per key,
\* across reconnections too.
C20_OneHandlePerKey ==
    \A g, h \in DOMAIN handles :
        /\ handles[g].unique_key = handles[h].unique_key
        /\ ~handles[g].destroyed
        /\ ~handles[h].destroyed
        => g = h

\* C21: each create_stream call that returns has wired exactly one callback
\* to the component's encoded output: the caller's callback when one is
\* given (also when a visualizer callback is given with it), otherwise the
\* generated default callback.
C21_OneCallbackWired ==
    Returned("create_stream") /\ call.result = None =>
        /\ Len(call.wired) = 1
        /\ call.wired[1].output = "encoded"
        /\ call.wired[1].callback =
              IF call.args[1] # None THEN call.args[1] ELSE "default"

\* create_stream returned after a call with both a callback and a visualizer
\* callback.
C21_Witness ==
    /\ Returned("create_stream")
    /\ call.result = None
    /\ call.args = <<"callback", "visualizer_callback">>
    /\ Len(call.wired) = 1

---------------------------------------------------------------------------
\* Streams: the registry, called directly.

\* The arguments the registry is called with.
StreamKeys == {derived_key(MxIds[1], "Camera"), derived_key(MxIds[1], "Stereo"),
               derived_key(MxIds[2], "Camera")}
CameraSerials == {MxIds[1], MxIds[2], None}

\* Streams.destroy / destroy_streams_by_id raise ValueError for a key that
\* is not in self.streams.
destroy_raises(registry, unique_key) == unique_key \notin registry

\* Streams.create_video(camera_serial, unique_key, description): the checks,
\* then `return StreamHandle(...)`; self.streams is left as it is.
CreateVideo ==
    /\ Idle
    /\ Len(handles) < MaxHandles
    /\ \E camera_serial \in CameraSerials, unique_key \in StreamKeys :
          LET raises == create_video_raises(STREAMS, camera_serial, unique_key)
          IN /\ handles' = IF raises THEN handles
                           ELSE Append(handles,
                                       [unique_key |-> unique_key, camera |-> 0,
                                        camera_serial |-> camera_serial,
                                        destroyed |-> FALSE])
             /\ call' = [Returns(Entered("create_video", 0),
                                 IF raises THEN "raised" ELSE None)
                           EXCEPT !.args = <<camera_serial, unique_key>>]
    /\ UNCHANGED <<devices, components, hub_cameras, live, STREAMS, last, returned,
                   connPc, connIdx, mxids, pollPc, pollIdx, stop_event, mainPc,
                   reporting, stopping, appVars>>

\* Streams.destroy(stream) for a handle create_video returned and that was
\* not destroyed since.
Destroy ==
    /\ Idle
    /\ \E h \in DOMAIN handles :
          LET raises == destroy_raises(STREAMS, handles[h].unique_key)
          IN /\ ~handles[h].destroyed
             /\ handles' = IF raises THEN handles
                           ELSE [handles EXCEPT ![h].destroyed = TRUE]
             /\ STREAMS' = IF raises THEN STREAMS
                           ELSE STREAMS \ {handles[h].unique_key}
             /\ call' = [Returns(Entered("destroy", 0),
                                 IF raises THEN "raised" ELSE None)
                           EXCEPT !.args = <<h>>]
    /\ UNCHANGED <<devices, components, hub_cameras, live, last, returned,
                   connPc, connIdx, mxids, pollPc, pollIdx, stop_event, mainPc,
                   reporting, stopping, appVars>>

\* Streams.destroy_streams_by_id([unique_key])
DestroyStreamsById ==
    /\ Idle
    /\ \E unique_key \in StreamKeys :
          LET raises == destroy_raises(STREAMS, unique_key)
          IN /\ handles' = IF raises THEN handles
                           ELSE [h \in DOMAIN handles |->
                                   IF handles[h].unique_key = unique_key
                                   THEN [handles[h] EXCEPT !.destroyed = TRUE]
                                   ELSE handles[h]]
             /\ STREAMS' = IF raises THEN STREAMS ELSE STREAMS \ {unique_key}
             /\ call' = [Returns(Entered("destroy_streams_by_id", 0),
                                 IF raises THEN "raised" ELSE None)
                           EXCEPT !.args = <<unique_key>>]
    /\ UNCHANGED <<devices, components, hub_cameras, live, last, returned,
                   connPc, connIdx, mxids, pollPc, pollIdx, stop_event, mainPc,
                   reporting, stopping, appVars>>

\* Streams.destroy_all_streams()
DestroyAllStreams ==
    /\ Idle
    /\ handles' = [h \in DOMAIN handles |->
                     IF handles[h].unique_key \in STREAMS
                     THEN [handles[h] EXCEPT !.destroyed = TRUE] ELSE handles[h]]
    /\ STREAMS' = {}
    /\ call' = Returns(Entered("destroy_all_streams", 0), None)
    /\ UNCHANGED <<devices, components, hub_cameras, live, last, returned,
                   connPc, connIdx, mxids, pollPc, pollIdx, stop_event, mainPc,
                   reporting, stopping, appVars>>

\* Registry-level specification: the application calls Streams directly.
NextStreams ==
    \/ CreateVideo
    \/ Destroy
    \/ DestroyStreamsById
    \/ DestroyAllStreams

SpecStreams == InitCam /\ [][NextStreams]_vars

\* C22: in the stream registry at most one stream exists per unique key at a
\* time, and destroy of a stream that was created and not yet destroyed
\* succeeds.
C22_OneStreamPerKey ==
    /\ \A g, h \in DOMAIN handles :
          /\ handles[g].unique_key = handles[h].unique_key
          /\ ~handles[g].destroyed
          /\ ~handles[h].destroyed
          /\ handles[g].camera = 0
          => g = h
    /\ Returned("destroy") =>
          /\ call.result = None
          /\ handles[call.args[1]].destroyed

---------------------------------------------------------------------------
\* C23: HubCamera.state changes only along UNKNOWN -> CONNECTING,
\* CONNECTING -> CONNECTED, CONNECTED -> DISCONNECTED and
\* DISCONNECTED -> CONNECTING.
C23_StateTransitions ==
    [][\A c \in DOMAIN hub_cameras :
          \/ hub_cameras'[c].state = hub_cameras[c].state
          \/ <<hub_cameras[c].state, hub_cameras'[c].state>> \in
                {<<"UNKNOWN", "CONNECTING">>, <<"CONNECTING", "CONNECTED">>,
                 <<"CONNECTED", "DISCONNECTED">>, <<"DISCONNECTED", "CONNECTING">>}]_vars

---------------------------------------------------------------------------
\* Device.restart

\* HubCamera.init_oak_camera as a whole: None once stop_event is set (the
\* loop is not entered), else the OakCamera when one could be constructed
\* within the retry window.
init_oak_camera(camera, acquired) ==
    IF camera.stop_event THEN None
    ELSE IF acquired THEN "open" ELSE None

\* Device.restart(): with a bound HubCamera, stop() it, assign the result of
\* init_oak_camera() to its oak_camera and call _start on it, whose return
\* value is dropped; any exception gives False, all else True.
restart(device, comps, cams, registry, close_raises, acquired, env) ==
    LET cam == device.hub_camera
        unchanged == [device |-> device, components |-> comps, cams |-> cams,
                      STREAMS |-> registry]
    IN IF cam = 0
       THEN [result |-> "True"] @@ unchanged
       ELSE LET s == stop_streams(cams[cam], registry)
                c == stop_close(s.camera, close_raises)
                again == [c.camera EXCEPT !.oak_camera = init_oak_camera(c.camera, acquired)]
                st == Device_start(device, comps, again, cam, s.STREAMS, env)
            IN IF c.raised
               THEN [result |-> "False", device |-> device, components |-> comps,
                     cams |-> [cams EXCEPT ![cam] = c.camera], STREAMS |-> s.STREAMS]
               ELSE [result |-> IF st.result = "raised" THEN "False" ELSE "True",
                     device |-> st.device, components |-> st.components,
                     cams |-> [cams EXCEPT ![cam] = st.camera], STREAMS |-> s.STREAMS]

\* The application calls Device.restart() on the registered device.
Restart ==
    /\ mainPc = "running"
    /\ \E close_raises \in BOOLEAN, acquired \in BOOLEAN, env \in Envs(1) :
          LET r == restart(devices[1], components, hub_cameras, STREAMS,
                           close_raises, acquired, env)
          IN /\ devices' = [devices EXCEPT ![1] = r.device]
             /\ components' = r.components
             /\ hub_cameras' = r.cams
             /\ STREAMS' = r.STREAMS
             /\ call' = Returns(Entered("restart", devices[1].hub_camera), r.result)
    /\ UNCHANGED <<live, last, returned, connPc, connIdx, mxids, pollPc, pollIdx,
                   stop_event, mainPc, reporting, stopping, handles, appVars>>

\* Restart-level specification: one device with cameras, connected by whole
\* passes of the manager's loops and restarted by the application.
NextRestart ==
    \/ \E name \in CameraNames, args \in CameraArgs : GetCamera(1, name, args)
    \/ \E c \in DeviceComponents(devices[1]) : StreamToHub(c)
    \/ Start
    \/ DevicePass
    \/ PollPass
    \/ Restart

SpecRestart == Init /\ [][NextRestart]_vars

\* C24: Device.restart() on a device with a bound HubCamera returns True only
\* if the capability object was re-acquired: it never reports success while
\* the bound HubCamera has a closed or absent capability object.
C24_RestartTrueMeansLive ==
    Returned("restart") /\ call.result = "True" /\ call.camera # 0 =>
        Callee.oak_camera # None

---------------------------------------------------------------------------
\* Builder calls of the application, with what each call returned.

\* The descriptors of neural networks the device's commands hold by `name`.
NetworksNamed(device, comps, name) ==
    {c \in DeviceComponents(device) :
        comps[c].type = "NeuralNetwork" /\ comps[c].name = name}

\* The commands of type `type` in the device's history.
CommandsOf(device, type) ==
    {i \in DOMAIN device.history : device.history[i].type = type}

\* device.create_neural_network(name, input); input = 0 is no input.
\* call.args: name, input, the descriptor returned (0 when it raised), the
\* descriptors held by that name before the call and the number of commands the
\* call pushed.
CreateNeuralNetworkCall ==
    /\ Configuring
    /\ Len(devices[1].history) < MaxBuilt
    /\ \E name \in BuilderNNNames, input \in {0} \cup DeviceComponents(devices[1]) :
          LET r == create_neural_network(devices[1], components, name, input)
          IN /\ devices' = [devices EXCEPT ![1] = r.device]
             /\ components' = r.components
             /\ call' = [Returns(Entered("create_neural_network", 0),
                                 IF r.raised THEN "raised" ELSE None)
                           EXCEPT !.args = <<name, input, r.ret,
                                             NetworksNamed(devices[1], components, name),
                                             Len(r.device.history)
                                                - Len(devices[1].history)>>]
    /\ UNCHANGED <<hub_cameras, live, STREAMS, last, returned, connPc, connIdx, mxids,
                   pollPc, pollIdx, stop_event, mainPc, reporting, stopping, handles, appVars>>

\* device.get_stereo_camera(resolution, fps).
\* call.args: resolution, fps, the descriptor returned and self.stereo before
\* the call.
GetStereoCameraCall ==
    /\ Configuring
    /\ devices[1].stereo # 0 \/ Len(devices[1].history) < MaxBuilt
    /\ \E args \in CameraArgs :
          LET r == get_stereo_camera(devices[1], components, args[1], args[2])
          IN /\ devices' = [devices EXCEPT ![1] = r.device]
             /\ components' = r.components
             /\ call' = [Returns(Entered("get_stereo_camera", 0), None)
                           EXCEPT !.args = <<args[1], args[2], r.ret, devices[1].stereo>>]
    /\ UNCHANGED <<hub_cameras, live, STREAMS, last, returned, connPc, connIdx, mxids,
                   pollPc, pollIdx, stop_event, mainPc, reporting, stopping, handles, appVars>>

\* Builder-level specification: the application configures one device.
NextBuild ==
    \/ \E name \in CameraNames, args \in CameraArgs : GetCamera(1, name, args)
    \/ CreateNeuralNetworkCall
    \/ GetStereoCameraCall

SpecBuild == Init /\ [][NextBuild]_vars

\* C25: after successful create_neural_network calls with one name, all calls
\* returned the same descriptor and the command history holds exactly one
\* CreateNeuralNetworkCommand for that name.
C25_OneNetworkPerName ==
    \A name \in BuilderNNNames :
        Cardinality(NetworksNamed(devices[1], components, name)) <= 1

\* C26: create_neural_network for a name not yet requested raises when no
\* input is given and when the input is a neural-network descriptor, and then
\* pushes no command and registers no descriptor.
C26_InvalidInputRaises ==
    /\ Returned("create_neural_network")
    /\ call.args[4] = {}
    /\ call.args[2] = 0 \/ components[call.args[2]].type = "NeuralNetwork"
    => /\ call.result = "raised"
       /\ call.args[3] = 0
       /\ call.args[5] = 0

\* C27: after get_stereo_camera calls with any arguments the device has
\* exactly one Stereo descriptor, every call returned it, and the command
\* history holds exactly one CreateStereoCommand.
C27_OneStereo ==
    /\ [](Returned("get_stereo_camera") =>
            /\ call.args[3] = devices[1].stereo
            /\ {c \in DOMAIN components : components[c].type = "Stereo"}
                  = {devices[1].stereo}
            /\ Cardinality(CommandsOf(devices[1], "CreateStereoCommand")) = 1
            /\ \A i \in CommandsOf(devices[1], "CreateStereoCommand") :
                  devices[1].history[i].comp = devices[1].stereo)
    /\ [][devices[1].stereo # 0 => devices'[1].stereo = devices[1].stereo]_vars

\* A second get_stereo_camera call, with other arguments than the first, has
\* returned.
C27_Witness ==
    /\ Returned("get_stereo_camera")
    /\ call.args[4] # 0
    /\ components[devices[1].stereo].resolution # call.args[1]

---------------------------------------------------------------------------
C29_BoundOnlyWhileConnected ==
    \A d \in DOMAIN devices :
        devices[d].hub_camera # 0 =>
            \E i \in DOMAIN live : live[i] = devices[d].hub_camera

---------------------------------------------------------------------------
\* The manager's lock: `with self.lock` around _connect_device and around
\* _disconnect_camera, with the connection attempt in two steps.

\* The thread inside a `with self.lock` block.
lock ==
    IF connPc \in {"locked", "attempt"} THEN "ConnectionThread"
    ELSE IF pollPc \in {"locked", "stopped"} THEN "PollingThread"
    ELSE None

\* _connect, `for device in self._devices`: the loop ends, or a device whose
\* mxid is among the live names is passed over.
ConnectWalk ==
    /\ connPc = "iter"
    /\ IF connIdx > Len(devices)
       THEN connPc' = "top" /\ UNCHANGED connIdx
       ELSE /\ devices[connIdx].mxid \in mxids
            /\ connIdx' = connIdx + 1
            /\ UNCHANGED connPc
    /\ UNCHANGED <<devices, components, hub_cameras, live, STREAMS, last, returned,
                   mxids, pollPc, pollIdx, stop_event, mainPc>>
    /\ UNCHANGED extVars

\* _connect, `with self.lock:` for a device that is not connected.
ConnectAcquire ==
    /\ connPc = "iter"
    /\ connIdx <= Len(devices)
    /\ devices[connIdx].mxid \notin mxids
    /\ Len(hub_cameras) < MaxAttempts
    /\ lock = None
    /\ connPc' = "locked"
    /\ UNCHANGED <<devices, components, hub_cameras, live, STREAMS, last, returned,
                   connIdx, mxids, pollPc, pollIdx, stop_event, mainPc>>
    /\ UNCHANGED extVars

\* _connect_device, first statement: HubCamera(device_name=...)
ConnectCreate ==
    /\ connPc = "locked"
    /\ \E env \in Envs(connIdx) :
          hub_cameras' = Append(hub_cameras,
                                HubCamera(Or(devices[connIdx].ip_address,
                                             devices[connIdx].mxid),
                                          env.acquired, env.has_stereo, connIdx))
    /\ connPc' = "attempt"
    /\ UNCHANGED <<devices, components, live, STREAMS, last, returned,
                   connIdx, mxids, pollPc, pollIdx, stop_event, mainPc>>
    /\ UNCHANGED extVars

\* The environments the rest of an attempt can meet once its HubCamera exists.
AttemptEnvs(d, hub_camera) ==
    LET n == Len(devices[d].history)
        names == IF Truthy(devices[d].name) THEN {devices[d].name} ELSE ProductNames
    IN IF hub_camera.oak_camera = None
       THEN {Env(FALSE, FALSE, "", 0, FALSE)}
       ELSE {Env(TRUE, hub_camera.has_stereo, p, f, FALSE) : p \in names, f \in 1..n}
            \cup {Env(TRUE, hub_camera.has_stereo, p, 0, st) :
                      p \in names, st \in BOOLEAN}

\* _connect_device, from device._start(hub_camera) to its return, and the end
\* of the `with` block; an exception ends the thread.
ConnectFinish ==
    /\ connPc = "attempt"
    /\ LET cam == Len(hub_cameras)
       IN \E env \in AttemptEnvs(connIdx, hub_cameras[cam]) :
             _connect_device_from(connIdx, env, SubSeq(hub_cameras, 1, cam - 1),
                                  hub_cameras[cam])
    /\ connPc' = IF Raised THEN "dead" ELSE "iter"
    /\ connIdx' = IF Raised THEN connIdx ELSE connIdx + 1
    /\ UNCHANGED <<returned, mxids, pollPc, pollIdx, stop_event, mainPc>>
    /\ UNCHANGED extVars

\* _poll, `for camera in self._hub_cameras`: the loop ends, or camera.poll()
\* is truthy, or it raises (which ends the polling thread).
PollWalk ==
    /\ pollPc = "iter"
    /\ IF pollIdx > Len(live)
       THEN pollPc' = "top" /\ UNCHANGED pollIdx
       ELSE \E poll \in {"truthy", "raises"} :
               IF poll = "truthy"
               THEN pollIdx' = pollIdx + 1 /\ UNCHANGED pollPc
               ELSE pollPc' = "dead" /\ UNCHANGED pollIdx
    /\ UNCHANGED <<devices, components, hub_cameras, live, STREAMS, last, returned,
                   connPc, connIdx, mxids, stop_event, mainPc>>
    /\ UNCHANGED extVars

\* _poll, camera.poll() is falsy: `with self.lock:`
PollAcquire ==
    /\ pollPc = "iter"
    /\ pollIdx <= Len(live)
    /\ lock = None
    /\ pollPc' = "locked"
    /\ UNCHANGED <<devices, components, hub_cameras, live, STREAMS, last, returned,
                   connPc, connIdx, mxids, pollIdx, stop_event, mainPc>>
    /\ UNCHANGED extVars

\* _poll, self._disconnect_camera(camera) and the end of the `with` block.
PollDisconnect ==
    /\ pollPc = "locked"
    /\ _disconnect_camera(live[pollIdx])
    /\ pollIdx' = pollIdx + 1
    /\ pollPc' = "iter"
    /\ UNCHANGED <<components, last, returned, connPc, connIdx, mxids, stop_event,
                   mainPc>>
    /\ UNCHANGED extVars

\* Lock-level specification: the connection and the polling thread over two
\* devices registered by mxid, each `with self.lock` block in its own steps.
NextLock ==
    \/ Start
    \/ ConnectTop
    \/ ConnectWalk
    \/ ConnectAcquire
    \/ ConnectCreate
    \/ ConnectFinish
    \/ PollTop
    \/ PollWalk
    \/ PollAcquire
    \/ PollDisconnect

SpecLock == InitStop /\ [][NextLock]_vars

\* The HubCameras whose connection attempt is in progress: created, and
\* neither stopped nor added to the live list, by a thread that still runs.
InProgress ==
    {c \in DOMAIN hub_cameras :
        /\ ~hub_cameras[c].stop_event
        /\ \A i \in DOMAIN live : live[i] # c
        /\ connPc # "dead"}

\* C30: at most one connection attempt is in progress in a DeviceManager at
\* any time, it proceeds under the manager's lock, and no device has two
\* attempts in progress.
C30_OneAttemptAtATime ==
    /\ Cardinality(InProgress) <= 1
    /\ InProgress # {} => lock = "ConnectionThread"
    /\ \A d \in DOMAIN devices :
          Cardinality({c \in InProgress : hub_cameras[c].device = d}) <= 1

\* An attempt for the second HubCamera is in progress while the polling
\* thread walks the live list.
C30_Witness ==
    /\ InProgress = {2}
    /\ Len(live) = 1
    /\ pollPc = "iter"

---------------------------------------------------------------------------
\* C31: a polling pass polls every camera that stays live for the whole
\* pass: when the pass removes a camera from the live list, no camera it has
\* not polled yet ends up behind the position the pass goes on from.
C31_PassSkipsNoCamera ==
    [][(pollPc = "iter" /\ Len(live') < Len(live)) =>
          \A i \in DOMAIN live' :
              i < pollIdx' => \E j \in 1..pollIdx : live[j] = live'[i]]_vars

---------------------------------------------------------------------------
\* The operations of the manager's threads on a camera's capability object,
\* with camera.poll() in two steps.

\* _poll, `if not camera.poll()`: the call is entered.
PollEnter ==
    /\ pollPc = "iter"
    /\ pollIdx <= Len(live)
    /\ pollPc' = "polling"
    /\ UNCHANGED <<devices, components, hub_cameras, live, STREAMS, last, returned,
                   connPc, connIdx, mxids, pollIdx, stop_event, mainPc>>
    /\ UNCHANGED extVars

\* _poll, camera.poll() returns a truthy or a falsy value, or raises.
PollReturn ==
    /\ pollPc = "polling"
    /\ \E poll \in {"truthy", "falsy", "raises"} :
          /\ pollPc' = IF poll = "truthy" THEN "iter"
                       ELSE IF poll = "falsy" THEN "falsy" ELSE "dead"
          /\ pollIdx' = IF poll = "truthy" THEN pollIdx + 1 ELSE pollIdx
    /\ UNCHANGED <<devices, components, hub_cameras, live, STREAMS, last, returned,
                   connPc, connIdx, mxids, stop_event, mainPc>>
    /\ UNCHANGED extVars

\* _poll, `with self.lock:` after a falsy poll().
PollLock ==
    /\ pollPc = "falsy"
    /\ lock = None
    /\ pollPc' = "locked"
    /\ UNCHANGED <<devices, components, hub_cameras, live, STREAMS, last, returned,
                   connPc, connIdx, mxids, pollIdx, stop_event, mainPc>>
    /\ UNCHANGED extVars

\* _poll, the end of `for camera in self._hub_cameras` and the sleep.
PollEnd ==
    /\ pollPc = "iter"
    /\ pollIdx > Len(live)
    /\ pollPc' = "top"
    /\ UNCHANGED <<devices, components, hub_cameras, live, STREAMS, last, returned,
                   connPc, connIdx, mxids, pollIdx, stop_event, mainPc>>
    /\ UNCHANGED extVars

\* Operation-level specification: the three threads and stop() over one
\* device, each call on a capability object in its own steps.
NextOps ==
    \/ Start
    \/ ConnectTop
    \/ ConnectWalk
    \/ ConnectAcquire
    \/ ConnectCreate
    \/ ConnectFinish
    \/ ConnectExit
    \/ PollTop
    \/ PollEnter
    \/ PollReturn
    \/ PollLock
    \/ PollDisconnect
    \/ PollEnd
    \/ PollExit
    \/ ReportTop
    \/ ReportIter
    \/ ReportExit
    \/ StopBegin
    \/ StopJoin
    \/ StopDestroyStreams
    \/ StopCamera

SpecOps == InitShutdown /\ [][NextOps]_vars

\* The HubCamera each thread is executing start, poll or stop on (0: none).
ConnectionOn == IF connPc = "attempt" THEN Len(hub_cameras) ELSE 0
PollingOn == IF pollPc \in {"polling", "locked"} THEN live[pollIdx] ELSE 0
MainOn ==
    IF mainPc = "closing" /\ stopping.idx <= Len(live)
    THEN live[stopping.idx] ELSE 0

\* C32: no two manager threads execute a mutating operation (start, poll,
\* stop) on the same HubCamera at the same time.
C32_OneThreadPerCamera ==
    /\ ConnectionOn # 0 => ConnectionOn \notin {PollingOn, MainOn}
    /\ PollingOn # 0 => PollingOn # MainOn

\* stop() waits in a join while the polling thread is inside camera.poll().
C32_Witness ==
    /\ mainPc = "stopping"
    /\ pollPc = "polling"
    /\ PollingOn # 0

---------------------------------------------------------------------------
\* HubCamera.info_report / stats_report

\* The calls on self.device each report makes.
InfoSubCalls ==
    {"getMxId", "getDeviceInfo", "readFactoryCalibration", "readCalibration2",
     "getEepromData", "getBootloaderVersion"}
StatsSubCalls ==
    {"getMxId", "getLeonCssCpuUsage", "getLeonMssCpuUsage", "getCmxMemoryUsage",
     "getDdrMemoryUsage", "getChipTemperature"}

\* HubCamera.info_report() when the sub-calls in `failing` raise: only
\* getDeviceInfo, the two calibration reads and getEepromData go through
\* try_or_default, and `calibration.getEepromData` is evaluated on None when
\* both reads failed.  A field that was looked up reads "known".
info_report(camera, failing) ==
    LET device_info == "getDeviceInfo" \notin failing
        calibration == "readFactoryCalibration" \notin failing
                          \/ "readCalibration2" \notin failing
        eeprom_data == "getEepromData" \notin failing
        field(found) == IF found THEN "known" ELSE "unknown"
    IN IF "getMxId" \in failing \/ ~calibration \/ "getBootloaderVersion" \in failing
       THEN [raised |-> TRUE, report |-> <<>>]
       ELSE [raised |-> FALSE,
             report |-> [mxid |-> "known",
                         protocol |-> field(device_info),
                         platform |-> field(device_info),
                         product_name |-> field(eeprom_data),
                         board_name |-> field(eeprom_data),
                         board_rev |-> field(eeprom_data),
                         bootloader_version |-> "known",
                         state |-> camera.state]]

\* HubCamera.stats_report(): no sub-call is wrapped.
stats_report(camera, failing) ==
    IF failing # {}
    THEN [raised |-> TRUE, report |-> <<>>]
    ELSE [raised |-> FALSE,
          report |-> [k \in {"mxid", "css_usage", "mss_usage", "ddr_mem_free",
                             "ddr_mem_total", "cmx_mem_free", "cmx_mem_total",
                             "css_temp", "mss_temp", "upa_temp", "dss_temp", "temp"}
                      |-> "known"]]

\* camera.info_report() on a camera with a capability object.
\* call.args: the failing sub-calls and the report returned.
InfoReport ==
    /\ Idle
    /\ \E cam \in DOMAIN hub_cameras, failing \in SUBSET InfoSubCalls :
          LET r == info_report(hub_cameras[cam], failing)
          IN /\ hub_cameras[cam].oak_camera # None
             /\ call' = [Returns(Entered("info_report", cam),
                                 IF r.raised THEN "raised" ELSE None)
                           EXCEPT !.args = <<failing, r.report>>]
    /\ UNCHANGED <<devices, components, hub_cameras, live, STREAMS, last, returned,
                   connPc, connIdx, mxids, pollPc, pollIdx, stop_event, mainPc,
                   reporting, stopping, handles, appVars>>

\* camera.stats_report() on a camera with a capability object.
StatsReport ==
    /\ Idle
    /\ \E cam \in DOMAIN hub_cameras, failing \in SUBSET StatsSubCalls :
          LET r == stats_report(hub_cameras[cam], failing)
          IN /\ hub_cameras[cam].oak_camera # None
             /\ call' = [Returns(Entered("stats_report", cam),
                                 IF r.raised THEN "raised" ELSE None)
                           EXCEPT !.args = <<failing, r.report>>]
    /\ UNCHANGED <<devices, components, hub_cameras, live, STREAMS, last, returned,
                   connPc, connIdx, mxids, pollPc, pollIdx, stop_event, mainPc,
                   reporting, stopping, handles, appVars>>

\* Report-level specification: HubCameras are created and asked for reports.
NextReport ==
    \/ NewHubCamera
    \/ InitAttempt
    \/ Wait
    \/ InfoReport
    \/ StatsReport

SpecReport == InitCam /\ [][NextReport]_vars

\* C33: info_report() and stats_report() return a report with the complete
\* key set whichever single sub-call fails, and never raise.
C33_ReportsNeverRaise ==
    (Returned("info_report") \/ Returned("stats_report")) /\ Cardinality(call.args[1]) = 1
        => /\ call.result # "raised"
           /\ Returned("info_report") =>
                 DOMAIN call.args[2] = {"mxid", "protocol", "platform", "product_name",
                                        "board_name", "board_rev", "bootloader_version",
                                        "state"}

---------------------------------------------------------------------------
\* robothub.BaseApplication / BaseSDKApplication: the device thread.
\* app.pc is the position of that thread: "init" (not started), "manage" (top
\* of `while app_is_running()`), "loop" / "acquire" / "wait" (inside
\* _connect), "returned" (_connect has returned), "running" (the polling and
\* reporting threads are joined), "exit" and "dead".

\* `while ...` of _connect that never looks at the clock.
always_within(elapsed, window) == TRUE

\* `time.monotonic() < give_up_time` of _connect.
within_window(elapsed, window) == elapsed < window

\* on_start: with no assigned device the stop event is set and no thread is
\* started; else the state is DISCONNECTED and the device thread starts.
OnStart ==
    /\ app.pc = "init"
    /\ \E assigned \in BOOLEAN :
          app' = IF assigned
                 THEN [app EXCEPT !.pc = "manage", !.state = "DISCONNECTED"]
                 ELSE [app EXCEPT !.pc = "exit", !.stopped = TRUE]
    /\ UNCHANGED <<oakVars, watch_dog, frame_buffer>>

\* The Agent stops the application: STOP_EVENT is set.
AppStop ==
    /\ app.pc # "init"
    /\ ~app.stopped
    /\ app' = [app EXCEPT !.stopped = TRUE]
    /\ UNCHANGED <<oakVars, watch_dog, frame_buffer>>

\* __manage_device, `while app_is_running()`: the loop ends with
\* _close_device(), or _manage_device_inner enters _connect, which takes
\* the give-up time and sets the state to CONNECTING.
ManageDevice ==
    /\ app.pc = "manage"
    /\ app' = IF app.stopped
              THEN [app EXCEPT !.pc = "exit", !.device = None]
              ELSE [app EXCEPT !.pc = "loop", !.state = "CONNECTING",
                               !.elapsed = 0, !.attempts = 0, !.began = 0]
    /\ UNCHANGED <<oakVars, watch_dog, frame_buffer>>

\* _connect, `while self.running and time.monotonic() < give_up_time`: an
\* acquisition is begun, or the loop is left with the state DISCONNECTED.
ConnectLoop ==
    /\ app.pc = "loop"
    /\ app' = IF ~app.stopped /\ within_window(app.elapsed, GiveUpWindow)
              THEN [app EXCEPT !.pc = "acquire", !.began = app.elapsed,
                               !.attempts = @ + 1]
              ELSE [app EXCEPT !.pc = "returned", !.state = "DISCONNECTED",
                               !.failed = TRUE]
    /\ UNCHANGED <<oakVars, watch_dog, frame_buffer>>

\* _connect, self._acquire_device(): the device is assigned and the state is
\* CONNECTED, or the exception is logged and the thread waits.
Acquire ==
    /\ app.pc = "acquire"
    /\ \E ok \in BOOLEAN, d \in CallDurations :
          app' = IF ok
                 THEN [app EXCEPT !.pc = "returned", !.state = "CONNECTED",
                                  !.device = "open", !.elapsed = @ + d]
                 ELSE [app EXCEPT !.pc = "wait", !.elapsed = @ + d]
    /\ UNCHANGED <<oakVars, watch_dog, frame_buffer>>

\* _connect, self.wait(5): it returns at once when the application stopped.
ConnectWaits ==
    /\ app.pc = "wait"
    /\ app' = [app EXCEPT !.pc = "loop",
                          !.elapsed = IF app.stopped THEN @ ELSE @ + ConnectWait]
    /\ UNCHANGED <<oakVars, watch_dog, frame_buffer>>

\* _manage_device_inner after _connect: without a device it waits and
\* returns to __manage_device; else the pipeline is set up and the device
\* started, which may raise: __manage_device then closes the device and the
\* thread ends.
AfterConnect ==
    /\ app.pc = "returned"
    /\ IF app.device = None
       THEN app' = [app EXCEPT !.pc = "manage"]
       ELSE \E raises \in BOOLEAN :
               app' = IF raises
                      THEN [app EXCEPT !.pc = "dead", !.device = None]
                      ELSE [app EXCEPT !.pc = "running"]
    /\ UNCHANGED <<oakVars, watch_dog, frame_buffer>>

\* _manage_device_inner, the joined threads have ended: _close_device().
DeviceStops ==
    /\ app.pc = "running"
    /\ app' = [app EXCEPT !.pc = "manage", !.device = None]
    /\ UNCHANGED <<oakVars, watch_dog, frame_buffer>>

NextApp ==
    \/ OnStart
    \/ AppStop
    \/ ManageDevice
    \/ ConnectLoop
    \/ Acquire
    \/ ConnectWaits
    \/ AfterConnect
    \/ DeviceStops

SpecApp == Init /\ [][NextApp]_vars

\* C34: _connect sets the state to CONNECTING on entry; it ends: every
\* acquisition begins inside the give-up window while the application runs,
\* with one wait between two acquisitions; on return the state is CONNECTED
\* exactly when a device was acquired, else it is DISCONNECTED and there is
\* no device; and after a return without a device the thread goes back to
\* the management loop, which enters _connect again while the application
\* runs.
C34_ConnectOutcome ==
    /\ [](/\ app.pc \in {"loop", "acquire", "wait"} => app.state = "CONNECTING"
          /\ app.pc = "acquire" => app.began < GiveUpWindow
          /\ app.pc \in {"acquire", "wait"} =>
                 (app.attempts - 1) * ConnectWait <= app.began
          /\ app.pc = "returned" =>
                 /\ app.state \in {"CONNECTED", "DISCONNECTED"}
                 /\ app.state = "CONNECTED" <=> app.device # None)
    /\ [][/\ (app.pc = "returned" /\ app.device = None /\ app'.pc # "returned") =>
                 app'.pc = "manage"
          /\ (app.pc = "manage" /\ ~app.stopped /\ app'.pc # "manage") =>
                 app'.pc = "loop" /\ app'.state = "CONNECTING"]_vars

\* _connect returned with a device after two failed acquisitions, in a pass
\* that followed a pass in which no device was acquired.
C34_Witness ==
    /\ app.pc = "returned"
    /\ app.failed
    /\ app.state = "CONNECTED"
    /\ app.attempts = 3

---------------------------------------------------------------------------
\* robothub_oak.WatchDog: one watchdog, its heartbeat thread ("run"), a
\* thread of the application that calls destroy() ("caller") and one that
\* calls destroy_all() ("all").  A thread inside destroy() is at "destroy"
\* (before `if not self.__stop_event.is_set()`), at "checked" (the test
\* passed) or at "set" (the event is set, the Agent not yet notified).

DogThreads == {"run", "caller", "all"}

\* WatchDog.create_instance and start(): the Agent is sent the init wish and
\* the heartbeat thread is started.
DogStart ==
    /\ ~watch_dog.started
    /\ watch_dog' = [started |-> TRUE, stop_event |-> FALSE, active |-> TRUE,
                     sent |-> 0, pings |-> 0,
                     pc |-> [t \in DogThreads |->
                               IF t = "run" THEN "loop" ELSE "idle"]]
    /\ UNCHANGED <<oakVars, app, frame_buffer>>

\* __run, `while self.__is_active()`: a ping and a wait while the
\* application runs and the stop event is clear; else self.destroy().
DogRun ==
    /\ watch_dog.started
    /\ watch_dog.pc["run"] = "loop"
    /\ \E running \in BOOLEAN :
          watch_dog' = IF running /\ ~watch_dog.stop_event
                       THEN [watch_dog EXCEPT !.pings = 1]
                       ELSE [watch_dog EXCEPT !.pc["run"] = "destroy"]
    /\ UNCHANGED <<oakVars, app, frame_buffer>>

\* The application calls destroy() on the watchdog.
DestroyCall ==
    /\ watch_dog.started
    /\ watch_dog.pc["caller"] = "idle"
    /\ watch_dog' = [watch_dog EXCEPT !.pc["caller"] = "destroy"]
    /\ UNCHANGED <<oakVars, app, frame_buffer>>

\* destroy_all(), `for watch_dog in cls.__active_watch_dogs`.
DestroyAll ==
    /\ watch_dog.started
    /\ watch_dog.pc["all"] = "idle"
    /\ watch_dog.active
    /\ watch_dog' = [watch_dog EXCEPT !.pc["all"] = "destroy"]
    /\ UNCHANGED <<oakVars, app, frame_buffer>>

\* Where a thread is after destroy() returned: the heartbeat thread ends,
\* the caller goes on, destroy_all clears the set of active watchdogs.
AfterDestroy(dog, t) ==
    IF t = "run" THEN [dog EXCEPT !.pc[t] = "done"]
    ELSE IF t = "all" THEN [dog EXCEPT !.pc[t] = "idle", !.active = FALSE]
    ELSE [dog EXCEPT !.pc[t] = "idle"]

\* destroy(), `if not self.__stop_event.is_set()`.
DestroyCheck ==
    /\ watch_dog.started
    /\ \E t \in DogThreads :
          /\ watch_dog.pc[t] = "destroy"
          /\ watch_dog' = IF watch_dog.stop_event
                          THEN AfterDestroy(watch_dog, t)
                          ELSE [watch_dog EXCEPT !.pc[t] = "checked"]
    /\ UNCHANGED <<oakVars, app, frame_buffer>>

\* destroy(), `self.__stop_event.set()`.
DestroySet ==
    /\ watch_dog.started
    /\ \E t \in DogThreads :
          /\ watch_dog.pc[t] = "checked"
          /\ watch_dog' = [watch_dog EXCEPT !.pc[t] = "set", !.stop_event = TRUE]
    /\ UNCHANGED <<oakVars, app, frame_buffer>>

\* destroy(), `AGENT.send_watch_dog_destroy(self.__id)`, and the return.
DestroySend ==
    /\ watch_dog.started
    /\ \E t \in DogThreads :
          /\ watch_dog.pc[t] = "set"
          /\ watch_dog' = AfterDestroy([watch_dog EXCEPT !.sent = @ + 1], t)
    /\ UNCHANGED <<oakVars, app, frame_buffer>>

NextDog ==
    \/ DogStart
    \/ DogRun
    \/ DestroyCall
    \/ DestroyAll
    \/ DestroyCheck
    \/ DestroySet
    \/ DestroySend

SpecDog == Init /\ [][NextDog]_vars

\* C35: the Agent is sent the destroy notification of a started watchdog at
\* most once, whatever the interleaving of the heartbeat thread, destroy()
\* and destroy_all().
C35_DestroySentOnce ==
    watch_dog.started => watch_dog.sent <= 1

---------------------------------------------------------------------------
\* _disconnect_camera in its two steps: camera.stop(), then the removal
\* from self._hub_cameras and the disconnect callback.

\* _disconnect_camera, `camera.stop()`.
PollStop ==
    /\ pollPc = "locked"
    /\ LET cam == live[pollIdx]
           stopped == HubCamera_stop(hub_cameras[cam], STREAMS)
       IN /\ hub_cameras' = [hub_cameras EXCEPT ![cam] = stopped.camera]
          /\ STREAMS' = stopped.STREAMS
    /\ pollPc' = "stopped"
    /\ UNCHANGED <<devices, components, live, last, returned, connPc, connIdx, mxids,
                   pollIdx, stop_event, mainPc>>
    /\ UNCHANGED extVars

\* _disconnect_camera, `self._hub_cameras.remove(camera)` and the callback of
\* the device the camera's name resolves to; the `with` block ends.
PollRemove ==
    /\ pollPc = "stopped"
    /\ LET cam == live[pollIdx]
           device == _get_device_by_name(devices, hub_cameras[cam].device_name)
       IN /\ live' = Remove(live, cam)
          /\ devices' = IF device # 0
                        THEN [devices EXCEPT ![device].disconnect_calls = @ + 1]
                        ELSE devices
    /\ pollIdx' = pollIdx + 1
    /\ pollPc' = "iter"
    /\ UNCHANGED <<components, hub_cameras, STREAMS, last, returned, connPc, connIdx,
                   mxids, stop_event, mainPc>>
    /\ UNCHANGED extVars

\* The threads and stop() over one device, with _disconnect_camera in two
\* steps.
NextObs ==
    \/ Start
    \/ ConnectTop
    \/ ConnectWalk
    \/ ConnectAcquire
    \/ ConnectCreate
    \/ ConnectFinish
    \/ ConnectExit
    \/ PollTop
    \/ PollEnter
    \/ PollReturn
    \/ PollLock
    \/ PollStop
    \/ PollRemove
    \/ PollEnd
    \/ PollExit
    \/ ReportTop
    \/ ReportIter
    \/ ReportExit
    \/ StopBegin
    \/ StopJoin
    \/ StopDestroyStreams
    \/ StopCamera

SpecObs == InitShutdown /\ [][NextObs]_vars

\* The HubCamera is connected and holds a capability object.
Usable(cam) ==
    /\ hub_cameras[cam].state = "CONNECTED"
    /\ hub_cameras[cam].oak_camera # None

\* C36: a camera the reporting loop or the polling loop takes from the live
\* list is CONNECTED and holds a capability object.
C36_TakenCameraUsable ==
    [][/\ (reporting.pc = "iter" /\ reporting'.idx = reporting.idx + 1) =>
              Usable(live[reporting.idx])
       /\ (pollPc = "iter" /\ pollPc' = "polling") => Usable(live[pollIdx])]_vars

---------------------------------------------------------------------------
\* stop() has been called on the HubCamera: nothing but stop() assigns
\* DISCONNECTED, right after it set the stop event.
Stopped(c) == hub_cameras[c].state = "DISCONNECTED"

\* C37: the stop event is latched.  Once stop() has been called on a
\* HubCamera, a later init_oak_camera() on it makes no construction attempt
\* and returns None, and the camera is never CONNECTED again, whatever
\* start() calls follow.
C37_StopLatched ==
    /\ [](call.op = "init_oak_camera" /\ Stopped(call.camera) =>
             /\ call.attempts = 0
             /\ call.pc = "done" => call.result = None /\ Callee.oak_camera = None)
    /\ [][\A c \in DOMAIN hub_cameras :
             /\ hub_cameras[c].stop_event => hub_cameras'[c].stop_event
             /\ Stopped(c) => hub_cameras'[c].state = "DISCONNECTED"]_vars

\* start() returned on a stopped camera that still holds its capability
\* object (device.close() raised): no attempt was made.
C37_Witness ==
    /\ Returned("start")
    /\ Stopped(call.camera)
    /\ Callee.oak_camera # None
    /\ call.attempts = 0
    /\ call.result = None

---------------------------------------------------------------------------
\* C38: for each device the connect-callback and the disconnect-callback
\* are invoked in turn, the connect-callback first: at any time the
\* connect-callback was invoked as often as the disconnect-callback, or once
\* more.
C38_CallbacksAlternate ==
    \A d \in DOMAIN devices :
        devices[d].connect_calls - devices[d].disconnect_calls \in {0, 1}

---------------------------------------------------------------------------
\* DeviceManager.get_device / get_all_devices over robothub_core.DEVICES.

\* What the Agent reports of an assigned unit: obj.oak of robothub_core.DEVICES.
\* The serial number identifies the unit; the others may be missing.
Unit(i, productName, name, ipAddress) ==
    [serialNumber |-> MxIds[i], productName |-> productName, name |-> name,
     ipAddress |-> ipAddress]

UnitsOf(i) ==
    {Unit(i, p, n, a) : p \in {None, "OAK-D-LR", "OAK-D-SR"},
                        n \in {None, "front", "back"},
                        a \in {None, IpAddresses[i]}}

\* robothub_core.DEVICES: one or two assigned units.
AssignedUnits ==
    {<<u>> : u \in UnitsOf(1)} \cup {<<u, v>> : u \in UnitsOf(1), v \in UnitsOf(2)}

\* Device.__init__
Device__init__(id, name, mxid, ip_address) ==
    [id |-> id, name |-> name, mxid |-> mxid, ip_address |-> ip_address,
     cameras |-> NoCameras, stereo |-> 0, neural_networks |-> NoNetworks,
     hub_camera |-> 0, connect_calls |-> 0, disconnect_calls |-> 0,
     history |-> <<>>]

\* Device.__eq__ for another Device: one truthy field of self equals the
\* same field of other.
Device__eq__(self, other) ==
    \/ Truthy(self.id) /\ self.id = other.id
    \/ Truthy(self.name) /\ self.name = other.name
    \/ Truthy(self.mxid) /\ self.mxid = other.mxid
    \/ Truthy(self.ip_address) /\ self.ip_address = other.ip_address

\* DeviceManager.get_device: ValueError without a truthy argument; the first
\* registered device equal to the new one, else the new one is registered.
\* `devs` is the list afterwards, `ret` the position of the returned device.
get_device(devs, id, name, mxid, ip_address) ==
    IF ~(Truthy(id) \/ Truthy(name) \/ Truthy(mxid) \/ Truthy(ip_address))
    THEN [raised |-> TRUE, devs |-> devs, ret |-> 0]
    ELSE LET device == Device__init__(id, name, mxid, ip_address)
             found == {d \in DOMAIN devs : Device__eq__(devs[d], device)}
         IN IF found # {}
            THEN [raised |-> FALSE, devs |-> devs,
                  ret |-> CHOOSE d \in found : \A e \in found : d <= e]
            ELSE [raised |-> FALSE, devs |-> Append(devs, device),
                  ret |-> Len(devs) + 1]

\* get_all_devices, one turn of `for obj in robothub_core.DEVICES`: the
\* device get_device returned is registered again only if no registered
\* device equals it.
get_all_devices_turn(devs, obj) ==
    LET g == get_device(devs, obj.name, obj.productName, obj.serialNumber,
                        obj.ipAddress)
        device == g.devs[g.ret]
        exists == \E d \in DOMAIN g.devs : Device__eq__(g.devs[d], device)
    IN IF g.raised THEN g
       ELSE IF exists THEN g
       ELSE [g EXCEPT !.devs = Append(g.devs, device)]

RECURSIVE get_all_devices(_, _, _)
get_all_devices(devs, DEVICES, i) ==
    IF i > Len(DEVICES) THEN [raised |-> FALSE, devs |-> devs]
    ELSE LET t == get_all_devices_turn(devs, DEVICES[i])
         IN IF t.raised THEN [raised |-> TRUE, devs |-> t.devs]
            ELSE get_all_devices(t.devs, DEVICES, i + 1)

\* The units assigned to the application: they are fixed when it starts.
DEVICES == call.args[1]

\* The application calls DeviceManager.get_all_devices(), for the first time
\* or again.  call.args = <<DEVICES, number of devices registered before>>.
GetAllDevices ==
    /\ \E units \in IF call.op = "get_all_devices" THEN {DEVICES} ELSE AssignedUnits :
          LET r == get_all_devices(devices, units, 1)
          IN /\ devices' = r.devs
             /\ call' = [NoCall EXCEPT !.op = "get_all_devices",
                                       !.args = <<units, Len(devices)>>,
                                       !.result = IF r.raised THEN "raised" ELSE None]
    /\ UNCHANGED <<components, hub_cameras, live, STREAMS, last, returned, connPc,
                   connIdx, mxids, pollPc, pollIdx, stop_event, mainPc, reporting,
                   stopping, handles, appVars>>

\* The application removes a registered device: DeviceManager.remove_device,
\* whose list.remove drops the first registered device equal to the given one.
RemoveDevice ==
    /\ call.op = "get_all_devices"
    /\ \E d \in DOMAIN devices :
          LET equal == {e \in DOMAIN devices : e = d \/ Device__eq__(devices[e], devices[d])}
              first == CHOOSE e \in equal : \A f \in equal : e <= f
          IN devices' = [i \in 1..(Len(devices) - 1) |->
                           IF i < first THEN devices[i] ELSE devices[i + 1]]
    /\ call' = [call EXCEPT !.pc = "removed"]
    /\ UNCHANGED <<components, hub_cameras, live, STREAMS, last, returned, connPc,
                   connIdx, mxids, pollPc, pollIdx, stop_event, mainPc, reporting,
                   stopping, handles, appVars>>

NextAll == GetAllDevices \/ RemoveDevice

InitAll ==
    /\ devices = <<>>
    /\ components = <<>>
    /\ returned = <<>>
    /\ InitManager

SpecAll == InitAll /\ [][NextAll]_vars

\* C39: get_all_devices registers exactly one Device per assigned unit: when
\* it has returned, every unit has one registered Device with its serial
\* number, units with different serial numbers have different Devices, and a
\* further call registers no further Device.
C39_OneDevicePerUnit ==
    Returned("get_all_devices") =>
        /\ call.result = None
        /\ Len(devices) = Len(DEVICES)
        /\ \A u \in DOMAIN DEVICES :
              Cardinality({d \in DOMAIN devices :
                              devices[d].mxid = DEVICES[u].serialNumber}) = 1

---------------------------------------------------------------------------
\* robothub.FrameBuffer: add_frame called by the application's frame
\* callback, _save_video running in the threads save_video_event starts.
\* Frames are numbered as they are added and that number is their timestamp;
\* the videos are of one frame per second.  A temporary queue is named by
\* the save call that created it.

\* FrameBuffer._get_slice(start) with end = None: the frames
\* list(buffer)[start:len(buffer) - 1], as the set of their numbers.
_get_slice(buffer, start) ==
    LET from == IF start < 0 THEN 0 ELSE start
    IN {t \in 1..buffer : from < t /\ t <= buffer - 1}

\* FrameBuffer.add_frame: the packet is appended to the buffer and put into
\* every temporary queue.
AddFrame ==
    /\ frame_buffer.buffer < MaxFrames
    /\ LET t == frame_buffer.buffer + 1
       IN frame_buffer' =
            [frame_buffer EXCEPT
               !.buffer = t,
               !.saves = [s \in DOMAIN @ |->
                            IF s \in frame_buffer.temporary_queues
                            THEN [@[s] EXCEPT !.queue = Append(@, t)]
                            ELSE @[s]]]
    /\ UNCHANGED <<oakVars, app, watch_dog>>

\* A _save_video call that ended with `result`.
Saved(result) ==
    [pc |-> "done", result |-> result, latest |-> 0, after |-> 0, queue |-> <<>>,
     retries |-> 0]

\* _save_video up to the wait for the frames that follow: ValueError for a
\* negative argument; None for an empty buffer; else the frames before are
\* sliced, the temporary queue is registered and the timestamp of the last
\* frame of the slice is read, which raises IndexError for an empty slice.
SaveVideo ==
    /\ Len(frame_buffer.saves) < MaxSaves
    /\ \E before_seconds \in {-1, 0, 1}, after_seconds \in {0, 1} :
          LET s == Len(frame_buffer.saves) + 1
              buffer == frame_buffer.buffer
              video_frames_before == _get_slice(buffer, (buffer - 1) - before_seconds)
          IN frame_buffer' =
               IF before_seconds < 0
               THEN [frame_buffer EXCEPT !.saves = Append(@, Saved("raised"))]
               ELSE IF buffer = 0
               THEN [frame_buffer EXCEPT !.saves = Append(@, Saved(None))]
               ELSE IF video_frames_before = {}
               THEN [frame_buffer EXCEPT
                       !.temporary_queues = @ \cup {s},
                       !.saves = Append(@, Saved("raised"))]
               ELSE [frame_buffer EXCEPT
                       !.temporary_queues = @ \cup {s},
                       !.saves = Append(@, [Saved(None) EXCEPT
                                              !.pc = "wait",
                                              !.latest = buffer - 1,
                                              !.after = after_seconds])]
    /\ UNCHANGED <<oakVars, app, watch_dog>>

\* _save_video, one turn of `while True`: temp_queue.get returns a frame,
\* and the loop is left once a frame is more than after_seconds later than
\* the last frame before: the queue is unregistered and the video is muxed
\* (which may raise); or the queue stays empty for the timeout, and after
\* more than RetryLimit such turns the call returns None.
SaveTurn ==
    /\ \E s \in DOMAIN frame_buffer.saves :
          LET save == frame_buffer.saves[s]
          IN /\ save.pc = "wait"
             /\ IF save.queue # <<>>
                THEN LET timestamp == Head(save.queue)
                     IN IF timestamp - save.latest > save.after
                        THEN \E mux_raises \in BOOLEAN :
                                frame_buffer' =
                                  [frame_buffer EXCEPT
                                     !.temporary_queues = @ \ {s},
                                     !.saves[s] =
                                        [save EXCEPT
                                           !.pc = "done",
                                           !.queue = Tail(@),
                                           !.result = IF mux_raises THEN "raised"
                                                      ELSE "video_path"]]
                        ELSE frame_buffer' =
                               [frame_buffer EXCEPT !.saves[s].queue = Tail(@)]
                ELSE frame_buffer' =
                       IF save.retries + 1 > RetryLimit
                       THEN [frame_buffer EXCEPT
                               !.saves[s] = [save EXCEPT !.pc = "done",
                                                         !.retries = @ + 1,
                                                         !.result = None]]
                       ELSE [frame_buffer EXCEPT !.saves[s].retries = @ + 1]
    /\ UNCHANGED <<oakVars, app, watch_dog>>

NextFrames == AddFrame \/ SaveVideo \/ SaveTurn

SpecFrames == Init /\ [][NextFrames]_vars

\* C40: the temporary queue of a _save_video call that has returned is not
\* registered any more, whatever the return path, so add_frame puts frames
\* into none.
C40_QueuesUnregistered ==
    \A s \in DOMAIN frame_buffer.saves :
        frame_buffer.saves[s].pc = "done" /\ frame_buffer.saves[s].result # "raised" =>
            s \notin frame_buffer.temporary_queues

====
